---- MODULE Spec2Model ----
(***************************************************************************)
(* A model of the truck tracker (simple_app_fixed.py): the ingest pipeline *)
(* (process_fetched_location and the functions it calls), the persistence  *)
(* functions over the two backends (Redis, JSON files) and the derived     *)
(* metrics.                                                                *)
(*                                                                         *)
(* Units.  Time is in whole seconds.  A coordinate is an integer number of *)
(* 0.0001 mi on a flat grid, and haversine_distance is the grid distance   *)
(* in the same unit, so 0.028 mi is 280, 0.009 mi is 90, 0.001 mi is 10    *)
(* and 0.0001 mi is 1.  A speed is in 0.001 mph, rounded down:             *)
(* distance (1e-4 mi) * 360 / seconds.  A date is the day number           *)
(* timestamp \div 86400.                                                   *)
(*                                                                         *)
(* Sequential code is modelled by operators from a state record s          *)
(* (fields history, driver, daily_stats, redis, files, redis_client,       *)
(* redis_up) to the state record after the call.                           *)
(***************************************************************************)
EXTENDS Integers, Sequences, FiniteSets, TLC

VARIABLES
    clock,          \* what time.time() returns
    redis_client,   \* whether REDIS_URL is set (redis_client is not None)
    redis_up,       \* whether a call on redis_client succeeds
    redis,          \* the keys held by Redis: key -> stored content
    files,          \* the JSON files under truck_data: key -> stored content
    history,        \* location_data["history"]
    driver,         \* location_data["driver"]
    daily_stats,    \* the module-level daily_stats dict: day -> entry
    threads,        \* each thread's position in process_fetched_location
    obs,            \* what the last ingest did (its inputs and results)
    track,          \* per-day record of what the ingests of the day were
    probe           \* the inputs and results of a call under examination

vars == <<clock, redis_client, redis_up, redis, files, history, driver,
          daily_stats, threads, obs, track, probe>>

----------------------------------------------------------------------------
(* Program constants *)

MAX_REALISTIC_SPEED == 90
SECONDS_PER_DAY == 86400
SECONDS_PER_HOUR == 3600
MOVEMENT_WINDOW_SECONDS == 300
MOVEMENT_THRESHOLD == 280
STOP_CONFIRM_SECONDS == 300
SEGMENT_MIN_DISTANCE == 10
MOVING_SPEED_FLOOR == 500
PERSIST_EVERY == 3
HISTORY_HOURS == 1
DEFAULT_LATITUDE == 0
DEFAULT_LONGITUDE == 0

(* Bounds of the model *)

MaxIngests == 4
MaxOutages == 1

StartClock == 2 * SECONDS_PER_DAY - 3660
Sleeps == {60, 240, 3600}
Lats == {0, 200, 40000}
Latencies == {0, 1}
SlowLats == {0, 200}
StoreDay == StartClock \div SECONDS_PER_DAY
Delays == {1, 30}
ClassifyLats == {0, 140, 280, 281}
ClassifyOffsets == {0, 100, 200, 400}
ClassifyClocks == {400, 500}
MaxFixes == 3
DriveLats == {0, 200, 400}
DriveSleeps == {60, 240, 300}
MaxStarted == 3
LoopTicks == 3
MaxLoopIngests == 2

----------------------------------------------------------------------------
(* Values *)

NoneVal == -1
NoLoc == [none |-> TRUE]

Abs(x) == IF x < 0 THEN -x ELSE x

Max(a, b) == IF a > b THEN a ELSE b

SetField(r, f, v) == [x \in DOMAIN r \cup {f} |-> IF x = f THEN v ELSE r[x]]

SetKey(m, k, v) == [x \in DOMAIN m \cup {k} |-> IF x = k THEN v ELSE m[x]]

DayOf(ts) == ts \div SECONDS_PER_DAY

StartOfDay(ts) == DayOf(ts) * SECONDS_PER_DAY

Key(name, day) == [name |-> name, day |-> day]

K_HISTORY == Key("location_history", 0)
K_STATS == Key("daily_stats", 0)
K_LAST == Key("last_location", 0)
K_DAILY(day) == Key("daily", day)

(* A stored content or a decoded JSON value carries its JSON type; content *)
(* json.loads cannot parse has type "garbage".                             *)
JList(v) == [type |-> "list", val |-> v]
JDict(v) == [type |-> "dict", val |-> v]
JNull == [type |-> "null"]
Garbage == [type |-> "garbage"]

json_dumps_list(v) == JList(v)
json_dumps_dict(v) == JDict(v)

Fix(lat, lng, ts) == [latitude |-> lat, longitude |-> lng, timestamp |-> ts]

----------------------------------------------------------------------------
(* GeoMath and speeds *)

haversine_distance(lat1, lon1, lat2, lon2) == Abs(lat2 - lat1) + Abs(lon2 - lon1)

calculate_distance_simple(lat1, lon1, lat2, lon2) == Abs(lat2 - lat1) + Abs(lon2 - lon1)

\* distance / (seconds / 3600), in 0.001 mph
SpeedOf(distance, seconds) == (distance * 360) \div seconds

\* is_realistic_speed with no cap
is_realistic_speed_uncapped(speed) == 0 <= speed

is_realistic_speed(speed) == 0 <= speed /\ speed <= MAX_REALISTIC_SPEED * 1000

----------------------------------------------------------------------------
(* PersistenceAdapter: location_history, daily_stats, last_location *)

\* redis_client.get(key) returns a value json.loads can parse
RedisReadable(s, k) ==
    /\ s.redis_up
    /\ k \in DOMAIN s.redis
    /\ s.redis[k].type # "garbage"

\* os.path.exists(path) and json.load(f) succeeds
FileReadable(s, k) ==
    /\ k \in DOMAIN s.files
    /\ s.files[k].type # "garbage"

redis_set(s, k, content) == [s EXCEPT !.redis = SetKey(@, k, content)]

file_write(s, k, content) == [s EXCEPT !.files = SetKey(@, k, content)]

load_historical_data(s) ==
    IF s.redis_client /\ RedisReadable(s, K_HISTORY)
    THEN (IF s.redis[K_HISTORY].type = "list" THEN s.redis[K_HISTORY] ELSE JList(<<>>))
    ELSE IF FileReadable(s, K_HISTORY)
         THEN (IF s.files[K_HISTORY].type = "list" THEN s.files[K_HISTORY] ELSE JList(<<>>))
         ELSE JList(<<>>)

save_historical_data(s, h) ==
    IF s.redis_client /\ s.redis_up
    THEN redis_set(s, K_HISTORY, json_dumps_list(h))
    ELSE file_write(s, K_HISTORY, json_dumps_list(h))

load_daily_stats(s) ==
    IF s.redis_client /\ RedisReadable(s, K_STATS)
    THEN (IF s.redis[K_STATS].type = "dict" THEN s.redis[K_STATS] ELSE JDict(<<>>))
    ELSE IF FileReadable(s, K_STATS)
         THEN (IF s.files[K_STATS].type = "dict" THEN s.files[K_STATS] ELSE JDict(<<>>))
         ELSE JDict(<<>>)

save_daily_stats(s, stats) ==
    IF s.redis_client /\ s.redis_up
    THEN redis_set(s, K_STATS, json_dumps_dict(stats))
    ELSE file_write(s, K_STATS, json_dumps_dict(stats))

load_last_location(s) ==
    IF s.redis_client
    THEN (IF RedisReadable(s, K_LAST) THEN s.redis[K_LAST] ELSE JNull)
    ELSE IF FileReadable(s, K_LAST) THEN s.files[K_LAST] ELSE JNull

save_last_location(s, lat, lng, ts) ==
    IF s.redis_client /\ s.redis_up
    THEN redis_set(s, K_LAST, json_dumps_dict(Fix(lat, lng, ts)))
    ELSE file_write(s, K_LAST, json_dumps_dict(Fix(lat, lng, ts)))

----------------------------------------------------------------------------
(* PersistenceAdapter: daily:{date} *)

GetOr(r, f, default) == IF f \in DOMAIN r THEN r[f] ELSE default

\* int(x): rounds toward zero
TruncDiv(a, b) == IF a >= 0 THEN a \div b ELSE -((-a) \div b)

EmptySummary ==
    [first_movement_time |-> NoneVal, last_movement_time |-> NoneVal,
     moving_time_seconds |-> 0, stopped_time_seconds |-> 0]

\* The record create_empty_daily_file builds
EmptyDailyData(day, start_time, start_lat, start_lng) ==
    [date |-> day,
     start_time |-> start_time,
     end_time |-> NoneVal,
     start_location |-> Fix(start_lat, start_lng, start_time),
     end_location |-> NoLoc,
     total_distance_miles |-> 0,
     total_travel_time_seconds |-> 0,
     minute_locations |-> <<>>,
     summary |-> EmptySummary]

\* Returns [s |-> the state after, r |-> daily_data]
create_empty_daily_file(s, day, start_time, start_lat, start_lng) ==
    LET daily_data == EmptyDailyData(day, start_time, start_lat, start_lng) IN
    IF s.redis_client /\ s.redis_up
    THEN [s |-> redis_set(s, K_DAILY(day), json_dumps_dict(daily_data)), r |-> daily_data]
    ELSE [s |-> file_write(s, K_DAILY(day), json_dumps_dict(daily_data)), r |-> daily_data]

\* An entry of samples_by_minute is [key |-> [int |-> whether int(key) parses,
\* val |-> its value], sample |-> [latitude, longitude, speed]]
MinuteEntryOf(start_time, e) ==
    [minute |-> TruncDiv(e.key.val - StartOfDay(start_time), 60),
     timestamp |-> e.key.val,
     latitude |-> e.sample.latitude,
     longitude |-> e.sample.longitude,
     speed |-> GetOr(e.sample, "speed", 0),
     moving |-> GetOr(e.sample, "speed", 0) > 1000]

RECURSIVE MigrateSamples(_, _)
MigrateSamples(start_time, samples) ==
    IF samples = <<>> THEN <<>>
    ELSE <<MinuteEntryOf(start_time, Head(samples))>>
             \o MigrateSamples(start_time, Tail(samples))

\* int(timestamp_str) raises ValueError
migrate_raises(old_data) ==
    /\ "samples_by_minute" \in DOMAIN old_data
    /\ \E i \in 1..Len(old_data.samples_by_minute) : ~old_data.samples_by_minute[i].key.int

migrate_old_daily_format(old_data) ==
    LET start_time == GetOr(old_data, "start_time", NoneVal) IN
    [date |-> GetOr(old_data, "date", NoneVal),
     start_time |-> start_time,
     end_time |-> GetOr(old_data, "end_time", NoneVal),
     start_location |-> GetOr(old_data, "start_location", NoLoc),
     end_location |-> GetOr(old_data, "end_location", NoLoc),
     total_distance_miles |-> GetOr(old_data, "total_miles", 0),
     total_travel_time_seconds |-> GetOr(old_data, "total_travel_time", 0),
     minute_locations |->
         IF "samples_by_minute" \in DOMAIN old_data
                /\ start_time # NoneVal /\ start_time # 0
         THEN MigrateSamples(start_time, old_data.samples_by_minute)
         ELSE <<>>,
     summary |-> EmptySummary]

\* The schema test with its second half inverted: records that hold
\* minute_locations are migrated too
needs_migration_inverted(data) ==
    \/ "samples_by_minute" \in DOMAIN data
    \/ "minute_locations" \in DOMAIN data

\* 'samples_by_minute' in data and 'minute_locations' not in data
needs_migration(data) ==
    /\ "samples_by_minute" \in DOMAIN data
    /\ "minute_locations" \notin DOMAIN data

save_daily_file(s, day, daily_data) ==
    file_write(s, K_DAILY(day), json_dumps_dict(daily_data))

\* load_daily_file's upcast: data = migrate_old_daily_format(data) under its
\* schema test
Upcast(data) ==
    IF needs_migration(data) THEN migrate_old_daily_format(data) ELSE data

\* load_daily_file saves the migrated record and returns it
LoadMigrated(s, day, data) ==
    [raised |-> FALSE, s |-> save_daily_file(s, day, data), r |-> JDict(data)]

\* What load_daily_file does with the content it read and decoded:
\* [raised |-> TRUE] when the try block raises ('samples_by_minute' in None,
\* int(timestamp_str)), else the state after and the value returned.
LoadDecoded(s, day, content) ==
    IF content.type = "null"
    THEN [raised |-> TRUE]
    ELSE IF content.type # "dict"
    THEN [raised |-> FALSE, s |-> s, r |-> content]
    ELSE IF needs_migration(content.val)
         THEN IF migrate_raises(content.val)
              THEN [raised |-> TRUE]
              ELSE LoadMigrated(s, day, Upcast(content.val))
         ELSE [raised |-> FALSE, s |-> s, r |-> content]

\* The result of a try block, or of what follows it when the block raised
OrElse(got, fallback) ==
    IF got.raised THEN fallback ELSE [s |-> got.s, r |-> got.r]

\* Returns [s |-> the state after, r |-> the decoded value or JNull]
load_daily_file_from_file(s, day) ==
    IF FileReadable(s, K_DAILY(day))
    THEN OrElse(LoadDecoded(s, day, s.files[K_DAILY(day)]), [s |-> s, r |-> JNull])
    ELSE [s |-> s, r |-> JNull]

load_daily_file(s, day) ==
    IF s.redis_client /\ RedisReadable(s, K_DAILY(day))
    THEN OrElse(LoadDecoded(s, day, s.redis[K_DAILY(day)]),
                load_daily_file_from_file(s, day))
    ELSE load_daily_file_from_file(s, day)

----------------------------------------------------------------------------
(* HistoryStore *)

append_history_point(s, lat, lng, ts) ==
    [s EXCEPT !.history = Append(@, Fix(lat, lng, ts))]

\* trim_history_hours with the fix exactly at the cutoff dropped
trim_history_hours_strict(s, hours, now) ==
    LET cutoff == now - hours * SECONDS_PER_HOUR
        Keep(loc) == loc.timestamp > cutoff
    IN [s EXCEPT !.history = SelectSeq(@, Keep)]

trim_history_hours(s, hours, now) ==
    LET cutoff == now - hours * SECONDS_PER_HOUR
        Keep(loc) == loc.timestamp >= cutoff
    IN [s EXCEPT !.history = SelectSeq(@, Keep)]

periodic_persist_history(s) ==
    IF Len(s.history) % PERSIST_EVERY = 0
    THEN save_historical_data(s, s.history)
    ELSE s

\* list.sort(key=timestamp): a stable insertion sort
RECURSIVE InsertByTimestamp(_, _)
InsertByTimestamp(sorted, p) ==
    IF sorted = <<>> THEN <<p>>
    ELSE IF sorted[Len(sorted)].timestamp <= p.timestamp THEN Append(sorted, p)
    ELSE Append(InsertByTimestamp(SubSeq(sorted, 1, Len(sorted) - 1), p),
                sorted[Len(sorted)])

RECURSIVE SortByTimestamp(_)
SortByTimestamp(seq) ==
    IF seq = <<>> THEN <<>>
    ELSE InsertByTimestamp(SortByTimestamp(SubSeq(seq, 1, Len(seq) - 1)), seq[Len(seq)])

get_positions_in_window(s, end_time, window_seconds) ==
    LET start_time == end_time - window_seconds
        In(p) == start_time <= p.timestamp /\ p.timestamp <= end_time
    IN SortByTimestamp(SelectSeq(s.history, In))

RECURSIVE PathLength(_)
PathLength(positions) ==
    IF Len(positions) < 2 THEN 0
    ELSE PathLength(SubSeq(positions, 1, Len(positions) - 1))
           + haversine_distance(positions[Len(positions) - 1].latitude,
                                positions[Len(positions) - 1].longitude,
                                positions[Len(positions)].latitude,
                                positions[Len(positions)].longitude)

compute_window_distance(s, end_time, window_seconds) ==
    PathLength(get_positions_in_window(s, end_time, window_seconds))

----------------------------------------------------------------------------
(* MovementClassifier *)

calculate_speed(s, minutes, now) ==
    IF Len(s.history) < 2 THEN 0
    ELSE LET Recent(loc) == now - loc.timestamp <= minutes * 60
             recent_locations == SelectSeq(s.history, Recent)
         IN IF Len(recent_locations) < 2 THEN 0
            ELSE LET newest == recent_locations[Len(recent_locations)]
                     oldest == recent_locations[1]
                     distance == haversine_distance(oldest.latitude, oldest.longitude,
                                                    newest.latitude, newest.longitude)
                     seconds == newest.timestamp - oldest.timestamp
                 IN IF seconds > 0
                    THEN (IF is_realistic_speed(SpeedOf(distance, seconds))
                          THEN SpeedOf(distance, seconds) ELSE 0)
                    ELSE 0

calculate_vehicle_icon_speed(s, now) ==
    IF calculate_speed(s, 1, now) > 0 THEN calculate_speed(s, 1, now)
    ELSE IF calculate_speed(s, 5, now) > 0 THEN calculate_speed(s, 5, now)
    ELSE 0

\* The movement test with the threshold itself counted as movement
WindowMoved_inclusive(s, end_ts) ==
    compute_window_distance(s, end_ts, MOVEMENT_WINDOW_SECONDS) >= MOVEMENT_THRESHOLD

\* compute_window_distance(end_ts, 300) > 0.028
WindowMoved(s, end_ts) ==
    compute_window_distance(s, end_ts, MOVEMENT_WINDOW_SECONDS) > MOVEMENT_THRESHOLD

\* The timestamp of the last fix of the history (scanning from the newest)
\* whose trailing window moved, or did not, as asked; NoneVal when none
LastFixWhere(s, moved) ==
    IF \E i \in 1..Len(s.history) : WindowMoved(s, s.history[i].timestamp) = moved
    THEN s.history[CHOOSE i \in 1..Len(s.history) :
                       /\ WindowMoved(s, s.history[i].timestamp) = moved
                       /\ \A j \in (i + 1)..Len(s.history) :
                              WindowMoved(s, s.history[j].timestamp) # moved].timestamp
    ELSE NoneVal

\* get_movement_status deciding only from three fixes on
get_movement_status_from_three(s, now) ==
    IF Len(s.history) < 3
    THEN [status |-> "unknown", timestamp |-> NoneVal]
    ELSE IF WindowMoved(s, now)
    THEN [status |-> "moving", timestamp |-> now]
    ELSE [status |-> "stopped", timestamp |-> now]

\* Returns [status, timestamp]
get_movement_status(s, now) ==
    IF Len(s.history) < 2
    THEN [status |-> "stopped", timestamp |-> s.driver.stopped_since]
    ELSE IF compute_window_distance(s, now, MOVEMENT_WINDOW_SECONDS) < 1
              /\ Len(get_positions_in_window(s, now, MOVEMENT_WINDOW_SECONDS)) < 2
    THEN [status |-> "unknown", timestamp |-> NoneVal]
    ELSE IF WindowMoved(s, now)
    THEN [status |-> "moving",
          timestamp |-> IF LastFixWhere(s, FALSE) = NoneVal THEN now
                        ELSE LastFixWhere(s, FALSE)]
    ELSE [status |-> "stopped",
          timestamp |-> IF LastFixWhere(s, TRUE) = NoneVal THEN now
                        ELSE LastFixWhere(s, TRUE)]

get_stopped_duration(s, now) ==
    IF Len(s.history) < 2 THEN 0
    ELSE IF WindowMoved(s, now) THEN 0
    ELSE IF LastFixWhere(s, TRUE) # NoneVal /\ LastFixWhere(s, TRUE) # 0
    THEN now - LastFixWhere(s, TRUE)
    ELSE now - s.history[1].timestamp

detect_last_position_movement(s, new_lat, new_lng) ==
    IF s.driver.last_position = NoLoc
    THEN [has_moved |-> TRUE, distance |-> 0]
    ELSE LET dist == calculate_distance_simple(s.driver.last_position.latitude,
                                               s.driver.last_position.longitude,
                                               new_lat, new_lng)
         IN [has_moved |-> dist > 90, distance |-> dist]

\* update_driver_state leaving stopped_since alone unless the status is "stopped"
update_driver_state_keeping_stop(s, lat, lng, current_time, current_speed, now) ==
    LET d1 == [s.driver EXCEPT !.latitude = lat, !.longitude = lng,
                               !.last_updated = current_time,
                               !.speed = current_speed,
                               !.last_position = [latitude |-> lat, longitude |-> lng]]
        s1 == [s EXCEPT !.driver = d1]
        movement_status == get_movement_status(s1, now).status
        stopped_secs == get_stopped_duration(s1, now)
    IN IF movement_status = "stopped"
       THEN IF stopped_secs >= STOP_CONFIRM_SECONDS
            THEN (IF d1.stopped_since = NoneVal
                  THEN [s1 EXCEPT !.driver.stopped_since = current_time - stopped_secs]
                  ELSE s1)
            ELSE [s1 EXCEPT !.driver.stopped_since = NoneVal]
       ELSE s1

update_driver_state(s, lat, lng, current_time, current_speed, now) ==
    LET d1 == [s.driver EXCEPT !.latitude = lat, !.longitude = lng,
                               !.last_updated = current_time,
                               !.speed = current_speed,
                               !.last_position = [latitude |-> lat, longitude |-> lng]]
        s1 == [s EXCEPT !.driver = d1]
        movement_status == get_movement_status(s1, now).status
        stopped_secs == get_stopped_duration(s1, now)
    IN IF movement_status = "stopped"
       THEN IF stopped_secs >= STOP_CONFIRM_SECONDS
            THEN (IF d1.stopped_since = NoneVal
                  THEN [s1 EXCEPT !.driver.stopped_since = current_time - stopped_secs]
                  ELSE s1)
            ELSE [s1 EXCEPT !.driver.stopped_since = NoneVal]
       ELSE [s1 EXCEPT !.driver.stopped_since = NoneVal]

----------------------------------------------------------------------------
(* LegacyDailyStats *)

NewStatsEntry(current_time) ==
    [total_miles |-> 0,
     start_time |-> current_time,
     start_location |-> NoLoc,
     end_location |-> NoLoc,
     first_movement_time |-> NoneVal,
     last_movement_time |-> NoneVal,
     total_travel_time |-> 0,
     last_update_time |-> current_time]

\* The entry set_daily_start_location creates has no end_location and no
\* last_movement_time
NewStartEntry(current_time) ==
    [total_miles |-> 0,
     start_time |-> current_time,
     start_location |-> NoLoc,
     first_movement_time |-> NoneVal,
     total_travel_time |-> 0,
     last_update_time |-> current_time]

update_daily_stats(s, distance_miles, current_time, lat, lng) ==
    LET today == DayOf(current_time)
        entry == IF today \in DOMAIN s.daily_stats THEN s.daily_stats[today]
                 ELSE NewStatsEntry(current_time)
        e1 == [entry EXCEPT !.total_miles = @ + distance_miles,
                            !.last_update_time = current_time]
        e2 == SetField(SetField(e1, "last_movement_time", current_time),
                       "end_location", [latitude |-> lat, longitude |-> lng])
        stats == SetKey(s.daily_stats, today, e2)
    IN save_daily_stats([s EXCEPT !.daily_stats = stats], stats)

set_daily_start_location(s, lat, lng, current_time) ==
    LET today == DayOf(current_time)
        entry == IF today \in DOMAIN s.daily_stats THEN s.daily_stats[today]
                 ELSE NewStartEntry(current_time)
        s1 == [s EXCEPT !.daily_stats = SetKey(@, today, entry)]
    IN IF entry.start_location = NoLoc
       THEN LET e1 == [entry EXCEPT !.start_location = [latitude |-> lat, longitude |-> lng],
                                    !.first_movement_time = current_time]
                stats == SetKey(s.daily_stats, today, e1)
            IN save_daily_stats([s EXCEPT !.daily_stats = stats], stats)
       ELSE s1

update_travel_time(s, current_time, is_moving) ==
    LET today == DayOf(current_time) IN
    IF today \in DOMAIN s.daily_stats
    THEN LET entry == s.daily_stats[today]
             e1 == IF is_moving /\ "last_movement_update" \in DOMAIN entry
                   THEN [entry EXCEPT !.total_travel_time =
                                          @ + (current_time - entry.last_movement_update)]
                   ELSE entry
             e2 == IF is_moving THEN SetField(e1, "last_movement_update", current_time)
                   ELSE e1
             stats == SetKey(s.daily_stats, today, e2)
         IN save_daily_stats([s EXCEPT !.daily_stats = stats], stats)
    ELSE s

\* handle_segment_update_for_new_point without the realistic-speed test
segment_accepted_any_speed(s, new_lat, new_lng, current_time) ==
    /\ Len(s.history) >= 2
    /\ LET prev_location == s.history[Len(s.history) - 1]
           seg_dist == haversine_distance(prev_location.latitude, prev_location.longitude,
                                          new_lat, new_lng)
           seg_dt == current_time - prev_location.timestamp
       IN /\ seg_dt > 0
          /\ seg_dist > SEGMENT_MIN_DISTANCE

\* Whether the last segment is accepted: handle_segment_update_for_new_point
\* returns True
segment_accepted(s, new_lat, new_lng, current_time) ==
    /\ Len(s.history) >= 2
    /\ LET prev_location == s.history[Len(s.history) - 1]
           seg_dist == haversine_distance(prev_location.latitude, prev_location.longitude,
                                          new_lat, new_lng)
           seg_dt == current_time - prev_location.timestamp
       IN /\ seg_dt > 0
          /\ is_realistic_speed(SpeedOf(seg_dist, seg_dt))
          /\ seg_dist > SEGMENT_MIN_DISTANCE

handle_segment_update_for_new_point(s, new_lat, new_lng, current_time) ==
    IF segment_accepted(s, new_lat, new_lng, current_time)
    THEN LET prev_location == s.history[Len(s.history) - 1]
             seg_dist == haversine_distance(prev_location.latitude, prev_location.longitude,
                                            new_lat, new_lng)
         IN set_daily_start_location(
                update_daily_stats(s, seg_dist, current_time, new_lat, new_lng),
                new_lat, new_lng, current_time)
    ELSE s

compute_segment_moving_flag_for_new_point(s, new_lat, new_lng, current_time) ==
    /\ Len(s.history) >= 2
    /\ LET prev_location == s.history[Len(s.history) - 1]
           seg_dt == current_time - prev_location.timestamp
           seg_dist == haversine_distance(prev_location.latitude, prev_location.longitude,
                                          new_lat, new_lng)
       IN /\ seg_dt > 0
          /\ SpeedOf(seg_dist, seg_dt) > MOVING_SPEED_FLOOR
          /\ is_realistic_speed(SpeedOf(seg_dist, seg_dt))

----------------------------------------------------------------------------
(* DailyTrackStore *)

RECURSIVE InsertByMinute(_, _)
InsertByMinute(sorted, e) ==
    IF sorted = <<>> THEN <<e>>
    ELSE IF sorted[Len(sorted)].minute <= e.minute THEN Append(sorted, e)
    ELSE Append(InsertByMinute(SubSeq(sorted, 1, Len(sorted) - 1), e),
                sorted[Len(sorted)])

RECURSIVE SortByMinute(_)
SortByMinute(seq) ==
    IF seq = <<>> THEN <<>>
    ELSE InsertByMinute(SortByMinute(SubSeq(seq, 1, Len(seq) - 1)), seq[Len(seq)])

\* add_minute_location without the comparison with the last entry
add_minute_location_unchecked(daily_data, timestamp, lat, lng, speed, is_moving) ==
    LET locs == daily_data.minute_locations
        minutes_since_start ==
            TruncDiv(timestamp - StartOfDay(daily_data.start_time), 60)
        minute_entry == [minute |-> minutes_since_start, timestamp |-> timestamp,
                         latitude |-> lat, longitude |-> lng,
                         speed |-> speed, moving |-> is_moving]
        Same(i) == locs[i].minute = minutes_since_start
        new_locs ==
            IF \E i \in 1..Len(locs) : Same(i)
            THEN LET first == CHOOSE i \in 1..Len(locs) :
                                  Same(i) /\ \A j \in 1..(i - 1) : ~Same(j)
                 IN [locs EXCEPT ![first] = minute_entry]
            ELSE SortByMinute(Append(locs, minute_entry))
    IN IF ~is_moving THEN daily_data
       ELSE [daily_data EXCEPT !.minute_locations = new_locs,
                               !.end_location = Fix(lat, lng, timestamp),
                               !.end_time = timestamp]

add_minute_location(daily_data, timestamp, lat, lng, speed, is_moving) ==
    LET locs == daily_data.minute_locations
        last == locs[Len(locs)]
        minutes_since_start ==
            TruncDiv(timestamp - StartOfDay(daily_data.start_time), 60)
        minute_entry == [minute |-> minutes_since_start, timestamp |-> timestamp,
                         latitude |-> lat, longitude |-> lng,
                         speed |-> speed, moving |-> is_moving]
        Same(i) == locs[i].minute = minutes_since_start
        new_locs ==
            IF \E i \in 1..Len(locs) : Same(i)
            THEN LET first == CHOOSE i \in 1..Len(locs) :
                                  Same(i) /\ \A j \in 1..(i - 1) : ~Same(j)
                 IN [locs EXCEPT ![first] = minute_entry]
            ELSE SortByMinute(Append(locs, minute_entry))
    IN IF ~is_moving THEN daily_data
       ELSE IF locs # <<>> /\ last.latitude = lat /\ last.longitude = lng
                  /\ last.timestamp = timestamp
       THEN daily_data
       ELSE [daily_data EXCEPT !.minute_locations = new_locs,
                               !.end_location = Fix(lat, lng, timestamp),
                               !.end_time = timestamp]

calculate_daily_distance(daily_data) ==
    IF "minute_locations" \notin DOMAIN daily_data THEN 0
    ELSE PathLength(daily_data.minute_locations)

\* The record create_empty_daily_file returns, as a decoded value
Created(made) == [s |-> made.s, r |-> JDict(made.r)]

\* get_current_day_data after load_daily_file returned loaded
CurrentDayFrom(loaded, today, now) ==
    IF /\ loaded.s.redis_client
       /\ loaded.r = JNull
       /\ FileReadable(loaded.s, K_DAILY(today))
       /\ loaded.s.redis_up
    THEN \* the file exists, json.load reads it and redis_client.set stores it
         [s |-> redis_set(loaded.s, K_DAILY(today), loaded.s.files[K_DAILY(today)]),
          r |-> loaded.s.files[K_DAILY(today)]]
    ELSE IF loaded.r = JNull
    THEN Created(create_empty_daily_file(loaded.s, today, now,
                                         loaded.s.driver.latitude,
                                         loaded.s.driver.longitude))
    ELSE loaded

\* Returns [s |-> the state after, r |-> the decoded value]
get_current_day_data(s, now) ==
    CurrentDayFrom(load_daily_file(s, DayOf(now)), DayOf(now), now)

\* Whether update_daily_tracking's try block raises on the value it got
tracking_raises(got, is_moving) ==
    \/ got.type # "dict"
    \/ /\ is_moving
       /\ ~({"minute_locations", "start_time", "summary"} \subseteq DOMAIN got.val)

WithDistance(daily_data) ==
    SetField(daily_data, "total_distance_miles", calculate_daily_distance(daily_data))

WithMovement(daily_data, timestamp, is_moving) ==
    IF is_moving
    THEN [daily_data EXCEPT !.summary.first_movement_time =
                                IF @ = NoneVal THEN timestamp ELSE @,
                            !.summary.last_movement_time = timestamp]
    ELSE daily_data

\* update_daily_tracking after get_current_day_data returned got
TrackingFrom(got, lat, lng, timestamp, speed, is_moving, now) ==
    IF tracking_raises(got.r, is_moving) THEN got.s
    ELSE save_daily_file(got.s, DayOf(now),
             WithMovement(
                 WithDistance(add_minute_location(got.r.val, timestamp, lat, lng,
                                                  speed, is_moving)),
                 timestamp, is_moving))

update_daily_tracking(s, lat, lng, timestamp, speed, is_moving, now) ==
    TrackingFrom(get_current_day_data(s, now), lat, lng, timestamp, speed,
                 is_moving, now)

----------------------------------------------------------------------------
(* IngestPipeline *)

St ==
    [history |-> history, driver |-> driver, daily_stats |-> daily_stats,
     redis |-> redis, files |-> files,
     redis_client |-> redis_client, redis_up |-> redis_up]

\* process_fetched_location from append_history_point to trim_history_hours;
\* now is what time.time() returns after current_time was read
ProcessHistory(s, lat, lng, current_time, now) ==
    trim_history_hours(
        periodic_persist_history(append_history_point(s, lat, lng, current_time)),
        HISTORY_HOURS, now)

\* process_fetched_location from update_travel_time to save_last_location
ProcessTail(s, lat, lng, current_time, now, current_speed, is_moving_segment) ==
    save_last_location(
        update_driver_state(
            update_daily_tracking(
                update_travel_time(s, current_time, is_moving_segment),
                lat, lng, current_time, current_speed, is_moving_segment, now),
            lat, lng, current_time, current_speed, now),
        lat, lng, current_time)

\* process_fetched_location after handle_segment_update_for_new_point
ProcessSegment(s, lat, lng, current_time, now) ==
    ProcessTail(s, lat, lng, current_time, now,
                calculate_vehicle_icon_speed(s, now),
                compute_segment_moving_flag_for_new_point(s, lat, lng, current_time))

\* process_fetched_location after detect_last_position_movement
ProcessRest(s, lat, lng, current_time, now) ==
    ProcessSegment(
        handle_segment_update_for_new_point(
            ProcessHistory(s, lat, lng, current_time, now), lat, lng, current_time),
        lat, lng, current_time, now)

----------------------------------------------------------------------------
(* What the model records about the ingests, for the properties below *)

NoIngest == [day |-> NoneVal, timestamp |-> NoneVal, moving |-> FALSE]

InitObs ==
    [n |-> 0, current_time |-> NoneVal, now |-> NoneVal, latitude |-> 0,
     is_moving |-> FALSE, flushed |-> FALSE, before |-> <<>>]

InitTrack ==
    [last |-> NoIngest, expected |-> <<>>, flushes |-> <<>>, moving |-> <<>>,
     outages |-> 0]

LastThree(seq) == IF Len(seq) <= 3 THEN seq ELSE SubSeq(seq, Len(seq) - 2, Len(seq))

Flushed(appended) == periodic_persist_history(appended) # appended

\* The observation of an ingest of (lat, lng) read at current_time and
\* processed from state s with later clock readings now
ObsOf(s, lat, lng, current_time, now) ==
    [n |-> obs.n + 1,
     current_time |-> current_time,
     now |-> now,
     latitude |-> lat,
     is_moving |-> compute_segment_moving_flag_for_new_point(
                       handle_segment_update_for_new_point(
                           ProcessHistory(s, lat, lng, current_time, now),
                           lat, lng, current_time),
                       lat, lng, current_time),
     flushed |-> Flushed(append_history_point(s, lat, lng, current_time)),
     before |-> s.history]

TrackOf(o) ==
    LET day == DayOf(o.current_time)
        had == IF day \in DOMAIN track.expected THEN track.expected[day] ELSE 0
        both == /\ o.is_moving
                /\ track.last.moving
                /\ track.last.day = day
        seen == IF day \in DOMAIN track.moving THEN track.moving[day] ELSE <<>>
    IN [track EXCEPT
          !.last = [day |-> day, timestamp |-> o.current_time, moving |-> o.is_moving],
          !.expected = SetKey(@, day,
                          IF both THEN had + (o.current_time - track.last.timestamp)
                          ELSE had),
          !.flushes = LastThree(Append(@, o.flushed)),
          !.moving = IF o.is_moving
                     THEN SetKey(@, day, Append(seen, Fix(o.latitude, DEFAULT_LONGITUDE,
                                                          o.current_time)))
                     ELSE @]

----------------------------------------------------------------------------
(* The polling loop alone: update_location_periodically fetches, ingests   *)
(* and sleeps; one ingest at a time, each taking no time                   *)

InitDriver ==
    [latitude |-> DEFAULT_LATITUDE, longitude |-> DEFAULT_LONGITUDE,
     last_updated |-> StartClock, speed |-> 0,
     stopped_since |-> NoneVal, last_position |-> NoLoc]

\* The poller is at "fetch" (about to call fetch_real_location), "fetched"
\* (current_time read, nothing appended yet) or "sleep"; the request thread
\* (get_location) is "idle" or "fetched"
InitThreads ==
    [poller |-> [pc |-> "fetch"], request |-> [pc |-> "idle"]]

InitMemory ==
    /\ clock = StartClock
    /\ redis_up = TRUE
    /\ redis = <<>>
    /\ files = <<>>
    /\ history = <<>>
    /\ driver = InitDriver
    /\ daily_stats = <<>>
    /\ threads = InitThreads
    /\ obs = InitObs
    /\ track = InitTrack
    /\ probe = <<>>

Init ==
    /\ redis_client \in BOOLEAN
    /\ InitMemory

Install(s) ==
    /\ history' = s.history
    /\ driver' = s.driver
    /\ daily_stats' = s.daily_stats
    /\ redis' = s.redis
    /\ files' = s.files

Record(o) ==
    /\ obs' = o
    /\ track' = TrackOf(o)

\* process_fetched_location as a whole: current_time is read from the clock
\* and every later reading of the clock is latency later
IngestNow(lat, latency) ==
    /\ obs.n < MaxIngests
    /\ Install(ProcessRest(St, lat, DEFAULT_LONGITUDE, clock, clock + latency))
    /\ Record(ObsOf(St, lat, DEFAULT_LONGITUDE, clock, clock + latency))
    /\ clock' = clock + latency

\* One iteration of the loop whose fetch returns 200 and a location
Poll(lat) ==
    /\ threads.poller.pc = "fetch"
    /\ IngestNow(lat, 0)
    /\ threads' = [threads EXCEPT !.poller.pc = "sleep"]
    /\ UNCHANGED <<redis_client, redis_up, probe>>

\* time.sleep(60), d / 60 times, every fetch between two of them failing
Sleep(d) ==
    /\ threads.poller.pc = "sleep"
    /\ obs.n < MaxIngests
    /\ clock' = clock + d
    /\ threads' = [threads EXCEPT !.poller.pc = "fetch"]
    /\ UNCHANGED <<redis_client, redis_up, redis, files, history, driver,
                   daily_stats, obs, track, probe>>

\* Redis stops answering while the loop sleeps
RedisFails ==
    /\ threads.poller.pc = "sleep"
    /\ redis_client
    /\ redis_up
    /\ track.outages < MaxOutages
    /\ redis_up' = FALSE
    /\ track' = [track EXCEPT !.outages = @ + 1]
    /\ UNCHANGED <<clock, redis_client, redis, files, history, driver,
                   daily_stats, threads, obs, probe>>

RedisRecovers ==
    /\ threads.poller.pc = "sleep"
    /\ redis_client
    /\ ~redis_up
    /\ redis_up' = TRUE
    /\ UNCHANGED <<clock, redis_client, redis, files, history, driver,
                   daily_stats, threads, obs, track, probe>>

Next ==
    \/ \E lat \in Lats : Poll(lat)
    \/ \E d \in Sleeps : Sleep(d)
    \/ RedisFails
    \/ RedisRecovers

Spec == Init /\ [][Next]_vars

----------------------------------------------------------------------------
(* Properties of the polling loop *)

TravelOf(day) ==
    IF day \in DOMAIN daily_stats THEN daily_stats[day].total_travel_time ELSE 0

\* C1: the day's total travel seconds is the sum of the timestamp differences
\* over the pairs of consecutive ingests of the day that are both classified
\* moving; a moving fix after a non-moving one adds nothing.
C1_TravelIsSumOfMovingPairs ==
    \A day \in DOMAIN track.expected : TravelOf(day) = track.expected[day]

MinuteOf(ts) == (ts - StartOfDay(ts)) \div 60

MovingOf(day) == IF day \in DOMAIN track.moving THEN track.moving[day] ELSE <<>>

InDifferentMinutes(fixes) ==
    \E i, j \in 1..Len(fixes) : MinuteOf(fixes[i].timestamp) # MinuteOf(fixes[j].timestamp)

\* The record load_daily_file returns holds a sample for the minute of every
\* fix of fixes, and the distance between them when they are two
HoldsSamples(r, fixes) ==
    /\ r.type = "dict"
    /\ "minute_locations" \in DOMAIN r.val
    /\ \A i \in 1..Len(fixes) :
           \E j \in 1..Len(r.val.minute_locations) :
               /\ r.val.minute_locations[j].minute = MinuteOf(fixes[i].timestamp)
               /\ Len(fixes) = 2 => r.val.minute_locations[j].timestamp = fixes[i].timestamp
    /\ Len(fixes) = 2 =>
           r.val.total_distance_miles =
               haversine_distance(fixes[1].latitude, fixes[1].longitude,
                                  fixes[2].latitude, fixes[2].longitude)

\* C2: after two ingests classified moving in different minutes of one day,
\* the record read back under daily:{date} holds both minute samples and the
\* distance between them, with or without the cache.
C2_DailyRecordReadBack ==
    \A day \in DOMAIN track.moving :
        InDifferentMinutes(MovingOf(day)) =>
            HoldsSamples(load_daily_file(St, day).r, MovingOf(day))

FlushCount(flags) == Cardinality({i \in 1..Len(flags) : flags[i]})

\* C9: history is persisted on every third ingest: of any three consecutive
\* ingests exactly one flushes the history.
C9_OneFlushInThree ==
    Len(track.flushes) = PERSIST_EVERY => FlushCount(track.flushes) = 1

----------------------------------------------------------------------------
(* The polling loop with ingests that take time: the clock trim_history_   *)
(* hours reads is latency later than the current_time of the fix           *)

PollSlowly(lat, latency) ==
    /\ threads.poller.pc = "fetch"
    /\ IngestNow(lat, latency)
    /\ threads' = [threads EXCEPT !.poller.pc = "sleep"]
    /\ UNCHANGED <<redis_client, redis_up, probe>>

InitLatency ==
    /\ redis_client = FALSE
    /\ InitMemory

NextLatency ==
    \/ \E lat \in SlowLats, latency \in Latencies : PollSlowly(lat, latency)
    \/ \E d \in Sleeps : Sleep(d)

SpecLatency == InitLatency /\ [][NextLatency]_vars

Cutoff == obs.now - HISTORY_HOURS * SECONDS_PER_HOUR

KeptSince(fixes, cutoff) ==
    LET Recent(p) == p.timestamp >= cutoff
    IN SelectSeq(fixes, Recent)

Appended == Append(obs.before, Fix(obs.latitude, DEFAULT_LONGITUDE, obs.current_time))

\* C8: after every ingest, every fix of the history is at most one hour older
\* than the clock the trim read, and the history is the history before the
\* ingest with the new fix appended, filtered to those fixes, in its order.
C8_HistoryTrimmedToOneHour ==
    obs.n > 0 =>
        /\ \A i \in 1..Len(history) : history[i].timestamp >= Cutoff
        /\ history = KeptSince(Appended, Cutoff)

\* An ingest that took time kept the new fix and dropped a fix exactly one
\* hour older than it, which a cutoff taken from the fix's own timestamp
\* would have kept
C8_TrimDroppedAtTheHour ==
    /\ obs.n > 0
    /\ obs.now > obs.current_time
    /\ \E i \in 1..Len(obs.before) :
           obs.before[i].timestamp = obs.current_time - HISTORY_HOURS * SECONDS_PER_HOUR
    /\ Len(history) >= 1
    /\ Len(history) < Len(Appended)

----------------------------------------------------------------------------
(* The PersistenceAdapter alone: the load and save functions of one key,   *)
(* over contents an earlier run or an earlier version may have left in     *)
(* either backend                                                          *)

ProbeKeys == {K_HISTORY, K_STATS, K_LAST, K_DAILY(StoreDay)}

\* A record of the old schema, as stored before minute_locations existed
OldSample(ts, lat) ==
    [key |-> [int |-> TRUE, val |-> ts],
     sample |-> [latitude |-> lat, longitude |-> DEFAULT_LONGITUDE, speed |-> 30000]]

OldDailyData(samples) ==
    [date |-> StoreDay,
     start_time |-> StartClock,
     end_time |-> NoneVal,
     start_location |-> Fix(DEFAULT_LATITUDE, DEFAULT_LONGITUDE, StartClock),
     end_location |-> NoLoc,
     total_miles |-> 200,
     total_travel_time |-> 60,
     samples_by_minute |-> samples]

\* The values the program saves under key k
SavedValues(k) ==
    CASE k.name = "location_history" ->
             {<<>>, <<Fix(200, DEFAULT_LONGITUDE, StartClock)>>}
      [] k.name = "daily_stats" ->
             {<<>>, SetKey(<<>>, StoreDay, NewStatsEntry(StartClock))}
      [] k.name = "last_location" ->
             {Fix(lat, DEFAULT_LONGITUDE, StartClock) : lat \in SlowLats}
      [] k.name = "daily" ->
             {EmptyDailyData(StoreDay, StartClock, lat, DEFAULT_LONGITUDE) : lat \in SlowLats}

\* json.dumps of a value saved under k
ContentOf(k, v) ==
    IF k.name = "location_history" THEN json_dumps_list(v) ELSE json_dumps_dict(v)

\* What a backend may hold under k: what the program saved, an old-schema
\* daily record, JSON of another shape, JSON null, or bytes that do not parse
StoredContents(k) ==
    {ContentOf(k, v) : v \in SavedValues(k)}
        \cup (IF k.name = "daily"
              THEN {JDict(OldDailyData(<<OldSample(StartClock + 60, 200)>>))}
              ELSE {})
        \cup (IF k.name = "location_history" THEN {JDict(<<>>)} ELSE {JList(<<0>>)})
        \cup {JNull, Garbage}

Holdings(k) == {<<>>} \cup {SetKey(<<>>, k, c) : c \in StoredContents(k)}

\* get(key): the load function of the key; [s |-> the state after, r |-> the
\* value returned]
AdapterGet(s, k) ==
    CASE k.name = "location_history" -> [s |-> s, r |-> load_historical_data(s)]
      [] k.name = "daily_stats" -> [s |-> s, r |-> load_daily_stats(s)]
      [] k.name = "last_location" -> [s |-> s, r |-> load_last_location(s)]
      [] k.name = "daily" -> load_daily_file(s, k.day)

\* set(key, value): the save function of the key
AdapterSet(s, k, v) ==
    CASE k.name = "location_history" -> save_historical_data(s, v)
      [] k.name = "daily_stats" -> save_daily_stats(s, v)
      [] k.name = "last_location" ->
             save_last_location(s, v.latitude, v.longitude, v.timestamp)
      [] k.name = "daily" -> save_daily_file(s, k.day, v)

\* probe: the last call on the adapter, the backends before it and whether
\* Redis answered during it
ProbeOf(op, k, r) ==
    [op |-> op, key |-> k, r |-> r, redis |-> redis, files |-> files,
     answered |-> redis_client /\ redis_up]

InitStore ==
    /\ redis_client \in BOOLEAN
    /\ clock = StartClock
    /\ redis_up = TRUE
    /\ history = <<>>
    /\ driver = InitDriver
    /\ daily_stats = <<>>
    /\ threads = InitThreads
    /\ obs = InitObs
    /\ track = InitTrack
    /\ \E k \in ProbeKeys :
           /\ redis \in (IF redis_client THEN Holdings(k) ELSE {<<>>})
           /\ files \in Holdings(k)
           /\ probe = [op |-> "none", key |-> k, r |-> JNull, redis |-> redis,
                       files |-> files, answered |-> FALSE]

Get ==
    /\ Install(AdapterGet(St, probe.key).s)
    /\ probe' = ProbeOf("get", probe.key, AdapterGet(St, probe.key).r)
    /\ UNCHANGED <<clock, redis_client, redis_up, threads, obs, track>>

Set(v) ==
    /\ Install(AdapterSet(St, probe.key, v))
    /\ probe' = ProbeOf("set", probe.key, ContentOf(probe.key, v))
    /\ UNCHANGED <<clock, redis_client, redis_up, threads, obs, track>>

CacheFails ==
    /\ redis_client
    /\ redis_up
    /\ redis_up' = FALSE
    /\ UNCHANGED <<clock, redis_client, redis, files, history, driver,
                   daily_stats, threads, obs, track, probe>>

CacheRecovers ==
    /\ redis_client
    /\ ~redis_up
    /\ redis_up' = TRUE
    /\ UNCHANGED <<clock, redis_client, redis, files, history, driver,
                   daily_stats, threads, obs, track, probe>>

NextStore ==
    \/ Get
    \/ \E v \in SavedValues(probe.key) : Set(v)
    \/ CacheFails
    \/ CacheRecovers

SpecStore == InitStore /\ [][NextStore]_vars

\* C3: for every key, a set performed while the cache is available and
\* accepts the write leaves the durable file store unchanged.
C3_SetLeavesFilesWhenCached ==
    (probe.op = "set" /\ probe.answered) => files = probe.files

\* The call found no value for its key in the cache, or the cache call failed
CacheMissed ==
    /\ redis_client
    /\ \/ ~probe.answered
       \/ probe.key \notin DOMAIN probe.redis

\* The file store held, before the call, a value the program saved under the key
FileHeldValue ==
    /\ probe.key \in DOMAIN probe.files
    /\ \E v \in SavedValues(probe.key) :
           probe.files[probe.key] = ContentOf(probe.key, v)

\* C4: for every key, a get that misses in the configured cache, or whose
\* cache call fails, returns the value the durable file store holds.
C4_GetFallsBackToFile ==
    (probe.op = "get" /\ CacheMissed /\ FileHeldValue)
        => probe.r = probe.files[probe.key]

\* The JSON type of the values of key k, and what get returns for absent
ShapeOf(k) == IF k.name = "location_history" THEN "list" ELSE "dict"

AbsentOf(k) ==
    CASE k.name = "location_history" -> JList(<<>>)
      [] k.name = "daily_stats" -> JDict(<<>>)
      [] OTHER -> JNull

\* C5: for every key and every stored content - unparseable, wrongly shaped,
\* missing - under every cache failure, get returns a value of the key's
\* shape, or absent or the empty default.
C5_GetReturnsValueOrDefault ==
    probe.op = "get" =>
        \/ probe.r = AbsentOf(probe.key)
        \/ probe.r.type = ShapeOf(probe.key)

\* The backend the last get read its old-schema record from, or "none"
MigratedFrom ==
    IF probe.op # "get" \/ probe.key.name # "daily" THEN "none"
    ELSE IF /\ probe.answered
            /\ probe.key \in DOMAIN probe.redis
            /\ probe.redis[probe.key].type = "dict"
         THEN (IF needs_migration(probe.redis[probe.key].val) THEN "redis" ELSE "none")
    ELSE IF /\ probe.key \in DOMAIN probe.files
            /\ probe.files[probe.key].type = "dict"
            /\ needs_migration(probe.files[probe.key].val)
            /\ (probe.answered => probe.key \notin DOMAIN probe.redis)
         THEN "file"
    ELSE "none"

HoldsCurrentSchema(store, k) ==
    /\ k \in DOMAIN store
    /\ store[k].type = "dict"
    /\ ~needs_migration(store[k].val)

\* C7: a get that reads an old-schema daily record leaves the upcast record
\* in the backend it read it from, the cache as well as the file, so that the
\* next get from that backend migrates nothing.
C7_UpcastWrittenBack ==
    /\ MigratedFrom = "redis" => HoldsCurrentSchema(redis, probe.key)
    /\ MigratedFrom = "file" => HoldsCurrentSchema(files, probe.key)

----------------------------------------------------------------------------
(* migrate_old_daily_format alone, over stored daily records of both       *)
(* schemas                                                                 *)

Optional(name, values) == {<<>>} \cup {SetKey(<<>>, name, v) : v \in values}

OldSamples ==
    {<<>>,
     <<OldSample(StartClock + 60, 200)>>,
     <<OldSample(StartClock + 60, 200), OldSample(StartClock + 120, 400)>>,
     <<OldSample(StartClock + 60, 200), OldSample(StartClock + 90, 400)>>,
     <<OldSample(StartClock + 120, 400), OldSample(StartClock + 60, 200)>>}

\* Old-schema records: .get() gives every field but samples_by_minute a default
OldRecords ==
    {[f \in DOMAIN a \cup DOMAIN b \cup DOMAIN c \cup {"date", "samples_by_minute"} |->
          IF f = "date" THEN StoreDay
          ELSE IF f = "samples_by_minute" THEN samples
          ELSE IF f \in DOMAIN a THEN a[f]
          ELSE IF f \in DOMAIN b THEN b[f]
          ELSE c[f]] :
        a \in Optional("start_time", {0, StartClock}),
        b \in Optional("total_miles", {0, 200}),
        c \in Optional("total_travel_time", {0, 60}),
        samples \in OldSamples}

CurrentRecords ==
    {[EmptyDailyData(StoreDay, StartClock, DEFAULT_LATITUDE, DEFAULT_LONGITUDE)
          EXCEPT !.total_distance_miles = d, !.total_travel_time_seconds = d \div 2] :
        d \in {0, 200}}

InitMigrate ==
    /\ redis_client = FALSE
    /\ InitMemory

\* probe: the record read, and what one and two applications make of it
ReadRecord(r) ==
    /\ probe = <<>>
    /\ probe' = [stage |-> "read", r |-> r]
    /\ UNCHANGED <<clock, redis_client, redis_up, redis, files, history, driver,
                   daily_stats, threads, obs, track>>

MigrateOnce ==
    /\ probe # <<>>
    /\ probe.stage = "read"
    /\ probe' = [stage |-> "once", r |-> probe.r,
                 migrated |-> migrate_old_daily_format(probe.r),
                 upcast |-> Upcast(probe.r)]
    /\ UNCHANGED <<clock, redis_client, redis_up, redis, files, history, driver,
                   daily_stats, threads, obs, track>>

MigrateTwice ==
    /\ probe # <<>>
    /\ probe.stage = "once"
    /\ probe' = [stage |-> "twice", r |-> probe.r,
                 migrated |-> probe.migrated,
                 upcast |-> probe.upcast,
                 migrated_twice |-> migrate_old_daily_format(probe.migrated),
                 upcast_twice |-> Upcast(probe.upcast)]
    /\ UNCHANGED <<clock, redis_client, redis_up, redis, files, history, driver,
                   daily_stats, threads, obs, track>>

NextMigrate ==
    \/ \E r \in OldRecords \cup CurrentRecords : ReadRecord(r)
    \/ MigrateOnce
    \/ MigrateTwice

SpecMigrate == InitMigrate /\ [][NextMigrate]_vars

Twice == probe # <<>> /\ probe.stage = "twice"

\* C6: the schema migration is idempotent: for every stored daily record r,
\* migrate(migrate(r)) = migrate(r), total_distance_miles,
\* total_travel_time_seconds and minute_locations included.
C6_MigrateIdempotent ==
    Twice => probe.migrated_twice = probe.migrated

\* C6, amended: the upcast load_daily_file performs - migrate the record when
\* it holds samples_by_minute and no minute_locations, else leave it - is
\* idempotent.
C6_UpcastIdempotent ==
    Twice => probe.upcast_twice = probe.upcast

\* An old-schema record with distance, travel time and two samples was upcast
\* twice
C6_OldRecordUpcastTwice ==
    /\ Twice
    /\ needs_migration(probe.r)
    /\ probe.upcast.total_distance_miles > 0
    /\ probe.upcast.total_travel_time_seconds > 0
    /\ Len(probe.upcast.minute_locations) = 2

----------------------------------------------------------------------------
(* Two threads ingesting: the polling loop and a request to /api/location, *)
(* which calls fetch_real_location itself.  A thread reads current_time,   *)
(* and runs the rest of process_fetched_location later.                    *)

Begun(th) == threads[th].pc = "fetched"

InFlight == Cardinality({th \in DOMAIN threads : Begun(th)})

\* current_time = time.time() for the location fetched; d passes before the
\* thread runs on
Begin(th, lat, d) ==
    /\ threads[th].pc \in {"fetch", "idle"}
    /\ obs.n + InFlight < MaxIngests
    /\ threads' = [threads EXCEPT
                     ![th] = [pc |-> "fetched", current_time |-> clock, latitude |-> lat]]
    /\ clock' = clock + d
    /\ UNCHANGED <<redis_client, redis_up, redis, files, history, driver,
                   daily_stats, obs, track, probe>>

\* process_fetched_location from detect_last_position_movement on
Finish(th) ==
    /\ Begun(th)
    /\ Install(ProcessRest(St, threads[th].latitude, DEFAULT_LONGITUDE,
                           threads[th].current_time, clock))
    /\ Record(ObsOf(St, threads[th].latitude, DEFAULT_LONGITUDE,
                    threads[th].current_time, clock))
    /\ threads' = [threads EXCEPT
                     ![th] = [pc |-> IF th = "poller" THEN "sleep" ELSE "idle"]]
    /\ UNCHANGED <<clock, redis_client, redis_up, probe>>

\* time.sleep(60) of the polling loop
Wake ==
    /\ threads.poller.pc = "sleep"
    /\ ~Begun("request")
    /\ obs.n < MaxIngests
    /\ clock' = clock + 60
    /\ threads' = [threads EXCEPT !.poller.pc = "fetch"]
    /\ UNCHANGED <<redis_client, redis_up, redis, files, history, driver,
                   daily_stats, obs, track, probe>>

NextThreads ==
    \/ \E th \in DOMAIN threads, lat \in SlowLats, d \in Delays : Begin(th, lat, d)
    \/ \E th \in DOMAIN threads : Finish(th)
    \/ Wake

SpecThreads == InitLatency /\ [][NextThreads]_vars

InWindow(minutes, now) == {i \in 1..Len(history) : now - history[i].timestamp <= minutes * 60}

Oldest(window) == CHOOSE i \in window : \A j \in window : history[i].timestamp <= history[j].timestamp

Newest(window) == CHOOSE i \in window : \A j \in window : history[i].timestamp >= history[j].timestamp

\* The speed between two fixes as calculate_speed takes it
SpeedBetween(oldest, newest) ==
    IF newest.timestamp - oldest.timestamp > 0
    THEN (IF is_realistic_speed(
                 SpeedOf(haversine_distance(oldest.latitude, oldest.longitude,
                                            newest.latitude, newest.longitude),
                         newest.timestamp - oldest.timestamp))
          THEN SpeedOf(haversine_distance(oldest.latitude, oldest.longitude,
                                          newest.latitude, newest.longitude),
                       newest.timestamp - oldest.timestamp)
          ELSE 0)
    ELSE 0

SpeedByTimestamps(window) ==
    IF Cardinality(window) < 2 THEN 0
    ELSE SpeedBetween(history[Oldest(window)], history[Newest(window)])

\* C10: the speed over a window is computed from the fix with the smallest
\* and the fix with the largest timestamp in the window, whatever order the
\* fixes were appended in, and is 0 with fewer than two fixes in the window.
C10_SpeedFromOldestAndNewest ==
    \A minutes \in {1, 5} :
        calculate_speed(St, minutes, clock) = SpeedByTimestamps(InWindow(minutes, clock))

----------------------------------------------------------------------------
(* MovementClassifier: the average speed over the moving segments *)

SegmentDistance(prev_loc, curr_loc) ==
    haversine_distance(prev_loc.latitude, prev_loc.longitude,
                       curr_loc.latitude, curr_loc.longitude)

\* segment_speed = (distance / (time_diff / 3600)) if time_diff > 0 else 0
SegmentSpeed(prev_loc, curr_loc) ==
    IF curr_loc.timestamp - prev_loc.timestamp > 0
    THEN SpeedOf(SegmentDistance(prev_loc, curr_loc),
                 curr_loc.timestamp - prev_loc.timestamp)
    ELSE 0

\* One pass of the loop: the totals with the segment added when it is a
\* realistic moving segment
AddSegment(totals, prev_loc, curr_loc) ==
    IF is_realistic_speed(SegmentSpeed(prev_loc, curr_loc))
           /\ SegmentSpeed(prev_loc, curr_loc) > MOVING_SPEED_FLOOR
    THEN [distance |-> totals.distance + SegmentDistance(prev_loc, curr_loc),
          time |-> totals.time + (curr_loc.timestamp - prev_loc.timestamp)]
    ELSE totals

\* for i in range(1, len(recent_locations)), up to the segment ending at n
RECURSIVE MovingTotals(_, _)
MovingTotals(recent_locations, n) ==
    IF n < 2 THEN [distance |-> 0, time |-> 0]
    ELSE AddSegment(MovingTotals(recent_locations, n - 1),
                    recent_locations[n - 1], recent_locations[n])

AverageOf(totals) ==
    IF totals.time > 0
    THEN (IF is_realistic_speed(SpeedOf(totals.distance, totals.time))
          THEN SpeedOf(totals.distance, totals.time) ELSE 0)
    ELSE 0

RecentLocations(s, minutes, now) ==
    LET Recent(loc) == now - loc.timestamp <= minutes * 60
    IN SelectSeq(s.history, Recent)

calculate_average_moving_speed(s, minutes, now) ==
    IF Len(s.history) < 2 THEN 0
    ELSE IF Len(RecentLocations(s, minutes, now)) < 2 THEN 0
    ELSE AverageOf(MovingTotals(RecentLocations(s, minutes, now),
                                Len(RecentLocations(s, minutes, now))))

----------------------------------------------------------------------------
(* Properties of the classifier and of the driver state, for the polling   *)
(* loop                                                                    *)

\* The last ingest appended a fix whose segment from the fix before it implies
\* more than MAX_REALISTIC_SPEED
UnrealisticSegment ==
    /\ obs.n > 0
    /\ Len(history) >= 2
    /\ history[Len(history)].timestamp = obs.current_time
    /\ SegmentSpeed(history[Len(history) - 1], history[Len(history)])
           > MAX_REALISTIC_SPEED * 1000

WithoutLastFix == [St EXCEPT !.history = SubSeq(history, 1, Len(history) - 1)]

AverageWindows == {10, 30, 60}

\* The fields of LegacyDailyStats a segment update writes
LegacyFields(stats) ==
    [day \in DOMAIN stats |->
        [total_miles |-> stats[day].total_miles,
         start_location |-> stats[day].start_location,
         end_location |-> GetOr(stats[day], "end_location", NoLoc),
         last_movement_time |-> GetOr(stats[day], "last_movement_time", NoneVal)]]

\* C11: a segment whose implied speed exceeds MAX_REALISTIC_SPEED adds neither
\* distance nor time to the average moving speed - the average is what it is
\* without the fix that ends the segment - and the ingest of it leaves
\* total_miles, start_location, end_location and last_movement_time of
\* LegacyDailyStats as they were.
C11_UnrealisticSegmentIgnored ==
    /\ [](UnrealisticSegment =>
             \A minutes \in AverageWindows :
                 calculate_average_moving_speed(St, minutes, clock)
                     = calculate_average_moving_speed(WithoutLastFix, minutes, clock))
    /\ [][(obs'.n # obs.n /\ UnrealisticSegment')
             => LegacyFields(daily_stats') = LegacyFields(daily_stats)]_vars

\* A 4 mi segment in a minute was ingested on a day that has accepted
\* segments, after a realistic moving segment
C11_UnrealisticSegmentIngested ==
    /\ UnrealisticSegment
    /\ DayOf(obs.current_time) \in DOMAIN daily_stats
    /\ daily_stats[DayOf(obs.current_time)].total_miles > 0
    /\ calculate_average_moving_speed(St, 10, clock) > 0

----------------------------------------------------------------------------
(* get_movement_status and get_stopped_duration alone, over histories of   *)
(* up to MaxFixes fixes with distinct timestamps, in any append order      *)

ClassifyFixes ==
    {Fix(lat, DEFAULT_LONGITUDE, StartClock + off) :
        lat \in ClassifyLats, off \in ClassifyOffsets}

DistinctTimes(h) ==
    \A i, j \in 1..Len(h) : i # j => h[i].timestamp # h[j].timestamp

Histories ==
    {h \in UNION {[1..n -> ClassifyFixes] : n \in 0..MaxFixes} : DistinctTimes(h)}

InitClassify ==
    /\ redis_client = FALSE
    /\ redis_up = TRUE
    /\ redis = <<>>
    /\ files = <<>>
    /\ driver = InitDriver
    /\ daily_stats = <<>>
    /\ threads = InitThreads
    /\ obs = InitObs
    /\ track = InitTrack
    /\ probe = [op |-> "none"]
    /\ history \in Histories
    /\ clock \in {StartClock + c : c \in ClassifyClocks}

\* What /api/location reports of the history: get_movement_status() and
\* get_stopped_duration() at the clock's time
Classify ==
    /\ probe.op = "none"
    /\ probe' = [op |-> "classify",
                 status |-> get_movement_status(St, clock).status,
                 timestamp |-> get_movement_status(St, clock).timestamp,
                 stopped |-> get_stopped_duration(St, clock)]
    /\ UNCHANGED <<clock, redis_client, redis_up, redis, files, history, driver,
                   daily_stats, threads, obs, track>>

NextClassify == Classify

SpecClassify == InitClassify /\ [][NextClassify]_vars

Classified == probe.op = "classify"

\* The fixes (by index) whose timestamp lies in the 5 minutes up to end_ts
WindowAt(end_ts) ==
    {i \in 1..Len(history) :
        /\ end_ts - MOVEMENT_WINDOW_SECONDS <= history[i].timestamp
        /\ history[i].timestamp <= end_ts}

\* The fixes of the window later than fix i
Later(window, i) == {j \in window : history[j].timestamp > history[i].timestamp}

\* The distance from fix i to the next fix of the window in time, 0 for the last
StepFrom(window, i) ==
    IF Later(window, i) = {} THEN 0
    ELSE SegmentDistance(
             history[i],
             history[CHOOSE j \in Later(window, i) :
                         \A k \in Later(window, i) :
                             history[j].timestamp <= history[k].timestamp])

RECURSIVE SumOfSteps(_, _)
SumOfSteps(window, left) ==
    IF left = {} THEN 0
    ELSE StepFrom(window, CHOOSE i \in left : TRUE)
             + SumOfSteps(window, left \ {CHOOSE i \in left : TRUE})

\* The cumulative displacement over the window, the fixes taken in time order
Displacement(end_ts) == SumOfSteps(WindowAt(end_ts), WindowAt(end_ts))

\* C12: with at least two fixes in the trailing 5-minute window the status is
\* "moving" exactly when the cumulative displacement over the window is
\* strictly greater than 0.028 mi, and "stopped" otherwise.
C12_MovingAboveThreshold ==
    (Classified /\ Cardinality(WindowAt(clock)) >= 2) =>
        /\ probe.status = "moving" <=> Displacement(clock) > MOVEMENT_THRESHOLD
        /\ probe.status = "stopped" <=> Displacement(clock) <= MOVEMENT_THRESHOLD

\* Three fixes in the window with a cumulative displacement of exactly
\* 0.028 mi were classified "stopped"
C12_StoppedAtThreshold ==
    /\ Classified
    /\ Cardinality(WindowAt(clock)) = 3
    /\ Displacement(clock) = MOVEMENT_THRESHOLD
    /\ probe.status = "stopped"

\* C13: the status is "unknown" whenever fewer than two fixes lie in the
\* trailing 5-minute window, a history of zero or one fix included.
C13_UnknownBelowTwoFixes ==
    (Classified /\ Cardinality(WindowAt(clock)) < 2) => probe.status = "unknown"

\* The fixes (by index) whose own trailing 5-minute window shows movement
MovedFixes ==
    {i \in 1..Len(history) : Displacement(history[i].timestamp) > MOVEMENT_THRESHOLD}

LatestTimestamp(fixes) ==
    CHOOSE t \in {history[i].timestamp : i \in fixes} :
        \A i \in fixes : history[i].timestamp <= t

SmallestTimestamp ==
    CHOOSE t \in {history[i].timestamp : i \in 1..Len(history)} :
        \A i \in 1..Len(history) : t <= history[i].timestamp

\* C15: the stopped duration is 0 when the trailing 5-minute window shows
\* movement; otherwise it is the time since the latest fix whose own trailing
\* window shows movement, and without such a fix the time since the smallest
\* timestamp of the history, a history of one fix or one appended out of
\* timestamp order included.
C15_StoppedDuration ==
    (Classified /\ Len(history) >= 1) =>
        probe.stopped =
            IF Displacement(clock) > MOVEMENT_THRESHOLD THEN 0
            ELSE IF MovedFixes # {} THEN clock - LatestTimestamp(MovedFixes)
            ELSE clock - SmallestTimestamp

----------------------------------------------------------------------------
(* The polling loop on a drive in steps of 0.02 mi, without Redis *)

NextDrive ==
    \/ \E lat \in DriveLats : Poll(lat)
    \/ \E d \in DriveSleeps : Sleep(d)

SpecDrive == InitLatency /\ [][NextDrive]_vars

\* The history is n fixes from an empty start, a minute and 0.02 mi apart,
\* each further from the first
SteadyDrive(n) ==
    /\ obs.n = n
    /\ Len(history) = n
    /\ \A i \in 2..n :
           /\ history[i].timestamp = history[i - 1].timestamp + 60
           /\ SegmentDistance(history[i - 1], history[i]) = 200
           /\ SegmentDistance(history[1], history[i]) = 200 * (i - 1)

StatusNow == get_movement_status(St, obs.now).status

\* C14: from an empty history, after a fix at t=0 and a second at t=60 that is
\* 0.02 mi away the status is "unknown", and after a third at t=120 a further
\* 0.02 mi away it is "moving".
C14_UnknownThenMoving ==
    /\ SteadyDrive(2) => StatusNow = "unknown"
    /\ SteadyDrive(3) => StatusNow = "moving"

\* C14, amended: after the second fix the status is "stopped" (two fixes in
\* the window, 0.02 mi of displacement), after the third it is "moving".
C14_StoppedThenMoving ==
    /\ SteadyDrive(2) => StatusNow = "stopped"
    /\ SteadyDrive(3) => StatusNow = "moving"

\* The third fix of the drive has been ingested and the status is "moving"
C14_ThirdFixMoving ==
    /\ SteadyDrive(3)
    /\ StatusNow = "moving"

----------------------------------------------------------------------------
(* Properties of DriverState.stopped_since in the polling loop *)

\* The state with the history as it was before the last ingest
BeforeLastIngest == [St EXCEPT !.history = obs.before]

\* C16: after every ingest, if the movement status of the resulting history
\* is "moving" then stopped_since is null: the ingest that detects movement
\* clears it.
C16_MovingClearsStoppedSince ==
    (obs.n > 0 /\ get_movement_status(St, obs.now).status = "moving")
        => driver.stopped_since = NoneVal

\* An ingest found the status "moving" on a history whose previous ingest had
\* confirmed a stop of 300 s or more, and stopped_since is null
C16_MovementAfterConfirmedStop ==
    /\ obs.n >= 3
    /\ Len(obs.before) >= 2
    /\ get_movement_status(BeforeLastIngest,
                           obs.before[Len(obs.before)].timestamp).status = "stopped"
    /\ get_stopped_duration(BeforeLastIngest,
                            obs.before[Len(obs.before)].timestamp) >= STOP_CONFIRM_SECONDS
    /\ get_movement_status(St, obs.now).status = "moving"
    /\ driver.stopped_since = NoneVal

\* Fix k of the history moved the vehicle by more than the threshold and every
\* later fix is at the position of fix k
StopsAt(k) ==
    /\ SegmentDistance(history[k - 1], history[k]) > MOVEMENT_THRESHOLD
    /\ \A j \in (k + 1)..Len(history) :
           SegmentDistance(history[j - 1], history[j]) = 0

\* Nothing was trimmed from the history and the vehicle stopped after a move
StoppedAfterMove ==
    /\ obs.n > 0
    /\ Len(history) = obs.n
    /\ \E k \in 2..Len(history) : StopsAt(k)

\* T0: the timestamp of the last fix that changed position
StopTime == history[CHOOSE k \in 2..Len(history) : StopsAt(k)].timestamp

\* C17: when the vehicle stops at T0, the last fix that changed position, and
\* stays where it is, stopped_since is null after every ingest before
\* T0 + 300 s and is T0 after every ingest from T0 + 300 s on.
C17_StoppedSinceIsStopTime ==
    StoppedAfterMove =>
        IF obs.current_time - StopTime < STOP_CONFIRM_SECONDS
        THEN driver.stopped_since = NoneVal
        ELSE driver.stopped_since = StopTime

----------------------------------------------------------------------------
(* Two threads ingesting, each interrupted between the test of             *)
(* start_location in set_daily_start_location and the assignment after it  *)

\* set_daily_start_location up to its test: the day's entry exists
EnsureStartEntry(s, current_time) ==
    IF DayOf(current_time) \in DOMAIN s.daily_stats THEN s
    ELSE [s EXCEPT !.daily_stats =
                       SetKey(@, DayOf(current_time), NewStartEntry(current_time))]

\* set_daily_start_location after its test found start_location None
AssignStartLocation(s, lat, lng, current_time) ==
    save_daily_stats(
        [s EXCEPT !.daily_stats[DayOf(current_time)].start_location =
                      [latitude |-> lat, longitude |-> lng],
                  !.daily_stats[DayOf(current_time)].first_movement_time = current_time],
        [s.daily_stats EXCEPT ![DayOf(current_time)].start_location =
                                  [latitude |-> lat, longitude |-> lng],
                              ![DayOf(current_time)].first_movement_time = current_time])

\* handle_segment_update_for_new_point up to the test of start_location, from
\* the state h with the new fix appended
SegmentUpToTest(h, lat, lng, current_time) ==
    IF segment_accepted(h, lat, lng, current_time)
    THEN EnsureStartEntry(
             update_daily_stats(h,
                 SegmentDistance(h.history[Len(h.history) - 1],
                                 Fix(lat, lng, current_time)),
                 current_time, lat, lng),
             current_time)
    ELSE h

\* Whether the thread goes on to assign start_location
FoundUnset(h, lat, lng, current_time) ==
    /\ segment_accepted(h, lat, lng, current_time)
    /\ SegmentUpToTest(h, lat, lng, current_time)
           .daily_stats[DayOf(current_time)].start_location = NoLoc

\* process_fetched_location up to the test of start_location
Test(th) ==
    /\ Begun(th)
    /\ Install(SegmentUpToTest(
                   ProcessHistory(St, threads[th].latitude, DEFAULT_LONGITUDE,
                                  threads[th].current_time, clock),
                   threads[th].latitude, DEFAULT_LONGITUDE, threads[th].current_time))
    /\ threads' = [threads EXCEPT
                     ![th] = [pc |-> "tested",
                              current_time |-> threads[th].current_time,
                              latitude |-> threads[th].latitude,
                              found_unset |->
                                  FoundUnset(
                                      ProcessHistory(St, threads[th].latitude,
                                                     DEFAULT_LONGITUDE,
                                                     threads[th].current_time, clock),
                                      threads[th].latitude, DEFAULT_LONGITUDE,
                                      threads[th].current_time)]]
    /\ UNCHANGED <<clock, redis_client, redis_up, obs, track, probe>>

\* process_fetched_location from the assignment of start_location on
Complete(th) ==
    /\ threads[th].pc = "tested"
    /\ Install(ProcessSegment(
                   IF threads[th].found_unset
                   THEN AssignStartLocation(St, threads[th].latitude, DEFAULT_LONGITUDE,
                                            threads[th].current_time)
                   ELSE St,
                   threads[th].latitude, DEFAULT_LONGITUDE,
                   threads[th].current_time, clock))
    /\ obs' = [obs EXCEPT !.n = @ + 1,
                          !.current_time = threads[th].current_time,
                          !.now = clock,
                          !.latitude = threads[th].latitude,
                          !.before = history]
    /\ threads' = [threads EXCEPT
                     ![th] = [pc |-> IF th = "poller" THEN "sleep" ELSE "idle"]]
    /\ UNCHANGED <<clock, redis_client, redis_up, track, probe>>

\* The ingests begun so far, finished or not
Started ==
    obs.n + Cardinality({th \in DOMAIN threads : threads[th].pc \in {"fetched", "tested"}})

NextSticky ==
    \/ \E th \in DOMAIN threads, lat \in SlowLats, d \in Delays :
           Started < MaxStarted /\ Begin(th, lat, d)
    \/ \E th \in DOMAIN threads : Test(th)
    \/ \E th \in DOMAIN threads : Complete(th)
    \/ Wake

SpecSticky == InitLatency /\ [][NextSticky]_vars

\* C18: once a day's start_location is set, it and first_movement_time keep
\* their values through every later step of every ingest, however the ingests
\* of the two threads interleave.
C18_StartLocationSticky ==
    [][\A day \in DOMAIN daily_stats :
           daily_stats[day].start_location # NoLoc =>
               /\ day \in DOMAIN daily_stats'
               /\ daily_stats'[day].start_location = daily_stats[day].start_location
               /\ daily_stats'[day].first_movement_time
                      = daily_stats[day].first_movement_time]_vars

----------------------------------------------------------------------------
(* The polling loop with steps that raise: a fetched location without a    *)
(* latitude, and a record of the day that update_daily_tracking cannot use *)

\* What fetch_real_location may hand to process_fetched_location
Locations ==
    {[latitude |-> lat, longitude |-> DEFAULT_LONGITUDE] : lat \in SlowLats}
        \cup {[longitude |-> DEFAULT_LONGITUDE]}

\* location['latitude'] or location['longitude'] raises KeyError
payload_raises(location) == ~({"latitude", "longitude"} \subseteq DOMAIN location)

\* Returns [s |-> the state after, success |-> what the ingest returns]
process_fetched_location(s, location, current_time, now) ==
    IF payload_raises(location) THEN [s |-> s, success |-> FALSE]
    ELSE [s |-> ProcessRest(s, location.latitude, location.longitude, current_time, now),
          success |-> TRUE]

\* Whether update_daily_tracking raises when called from state s
TrackingRaisesFrom(s, is_moving, now) ==
    tracking_raises(get_current_day_data(s, now).r, is_moving)

\* Whether update_daily_tracking raises in the ingest, from the state h after
\* handle_segment_update_for_new_point
TrackingRaisesAfter(h, lat, lng, current_time, now) ==
    TrackingRaisesFrom(
        update_travel_time(h, current_time,
            compute_segment_moving_flag_for_new_point(h, lat, lng, current_time)),
        compute_segment_moving_flag_for_new_point(h, lat, lng, current_time),
        now)

\* The steps of the ingest of location that raise
RaisedSteps(s, location, current_time, now) ==
    IF payload_raises(location) THEN {"payload"}
    ELSE IF TrackingRaisesAfter(
                handle_segment_update_for_new_point(
                    ProcessHistory(s, location.latitude, location.longitude,
                                   current_time, now),
                    location.latitude, location.longitude, current_time),
                location.latitude, location.longitude, current_time, now)
    THEN {"daily_record"}
    ELSE {}

InitFaulty ==
    /\ redis_client = FALSE
    /\ clock = StartClock
    /\ redis_up = TRUE
    /\ redis = <<>>
    /\ files \in Holdings(K_DAILY(StoreDay))
    /\ history = <<>>
    /\ driver = InitDriver
    /\ daily_stats = <<>>
    /\ threads = InitThreads
    /\ obs = InitObs
    /\ track = InitTrack
    /\ probe = [op |-> "none"]

\* One iteration of the loop whose fetch returns 200 and location
PollFaulty(location) ==
    /\ threads.poller.pc = "fetch"
    /\ obs.n < MaxIngests
    /\ Install(process_fetched_location(St, location, clock, clock).s)
    /\ probe' = [op |-> "ingest",
                 success |-> process_fetched_location(St, location, clock, clock).success,
                 raised |-> RaisedSteps(St, location, clock, clock),
                 location |-> location]
    /\ obs' = [obs EXCEPT !.n = @ + 1, !.current_time = clock, !.now = clock,
                          !.before = history]
    /\ threads' = [threads EXCEPT !.poller.pc = "sleep"]
    /\ UNCHANGED <<clock, redis_client, redis_up, track>>

NextFaulty ==
    \/ \E location \in Locations : PollFaulty(location)
    \/ \E d \in Sleeps : Sleep(d)

SpecFaulty == InitFaulty /\ [][NextFaulty]_vars

\* The history as the ingest of probe.location leaves it when nothing is
\* rolled back
HistoryWithFix ==
    trim_history_hours(
        [St EXCEPT !.history = Append(obs.before, Fix(probe.location.latitude,
                                                      probe.location.longitude,
                                                      obs.current_time))],
        HISTORY_HOURS, obs.now).history

\* C19: when a step of an ingest raises, the ingest returns success = false,
\* and what the steps before it did stays: when the DailyRecord update raises
\* the history holds the new fix.
C19_RaisedStepFailsIngest ==
    (probe.op = "ingest" /\ probe.raised # {}) =>
        /\ ~probe.success
        /\ "daily_record" \in probe.raised => history = HistoryWithFix

----------------------------------------------------------------------------
(* update_location_periodically from its first line: the last location     *)
(* stored before the start, the fetches that fail, and the startup speed   *)

\* bool(value) of a decoded JSON value
Truthy(r) ==
    \/ r.type = "list" /\ r.val # <<>>
    \/ r.type = "dict" /\ DOMAIN r.val # {}

\* What last_location may hold at startup: what StoredContents gives, and
\* records without a timestamp, without a position, and without anything
StartupContents ==
    StoredContents(K_LAST)
        \cup {JDict([latitude |-> 200, longitude |-> DEFAULT_LONGITUDE]),
              JDict([timestamp |-> StartClock - 60]),
              JDict(<<>>)}

StartupFiles == {<<>>} \cup {SetKey(<<>>, K_LAST, c) : c \in StartupContents}

\* last_saved_location['timestamp'] in the announcement raises
announce_raises(last_saved_location) ==
    /\ Truthy(last_saved_location)
    /\ \/ last_saved_location.type # "dict"
       \/ "timestamp" \notin DOMAIN last_saved_location.val

\* calculate_startup_speed raises on a field it reads
startup_speed_raises(last_location) ==
    /\ Truthy(last_location)
    /\ \/ last_location.type # "dict"
       \/ ~({"latitude", "longitude", "timestamp"} \subseteq DOMAIN last_location.val)

StartupSpeedOver(distance_miles, seconds) ==
    IF seconds > 0 /\ distance_miles > 10
    THEN (IF is_realistic_speed(SpeedOf(distance_miles, seconds))
             /\ seconds <= 8 * SECONDS_PER_HOUR
          THEN SpeedOf(distance_miles, seconds) ELSE 0)
    ELSE 0

calculate_startup_speed(last_location, current_lat, current_lng, current_time) ==
    IF ~Truthy(last_location) THEN 0
    ELSE StartupSpeedOver(
             haversine_distance(last_location.val.latitude, last_location.val.longitude,
                                current_lat, current_lng),
             current_time - last_location.val.timestamp)

\* The outcomes of fetch_real_location's request: a timeout, a status other
\* than 200, a body without data.driver.location, or a location
FetchFailures == {"timeout", "status", "no_location"}

\* The loop takes the startup-speed branch
TakesStartup(poller, success) ==
    success /\ poller.first_update /\ Truthy(poller.last_saved_location)

WithStartupSpeed(s, startup_speed) ==
    IF startup_speed > 0 THEN [s EXCEPT !.driver.speed = startup_speed] ELSE s

\* The state after the loop's body from the return of fetch_real_location;
\* nothing is assigned when calculate_startup_speed raises
AfterFetch(got, poller, now) ==
    IF TakesStartup(poller, got.success)
       /\ ~startup_speed_raises(poller.last_saved_location)
    THEN WithStartupSpeed(got.s,
             calculate_startup_speed(poller.last_saved_location,
                                     got.s.driver.latitude, got.s.driver.longitude, now))
    ELSE got.s

\* The poller after the loop's body: crashed when calculate_startup_speed raises
PollerAfter(got, poller) ==
    IF TakesStartup(poller, got.success)
    THEN (IF startup_speed_raises(poller.last_saved_location)
          THEN [poller EXCEPT !.pc = "crashed"]
          ELSE [poller EXCEPT !.pc = "sleep", !.first_update = FALSE])
    ELSE [poller EXCEPT !.pc = "sleep"]

InitLoop ==
    /\ redis_client = FALSE
    /\ clock = StartClock
    /\ redis_up = TRUE
    /\ redis = <<>>
    /\ files \in StartupFiles
    /\ history = <<>>
    /\ driver = InitDriver
    /\ daily_stats = <<>>
    /\ threads = [poller |-> [pc |-> "start", first_update |-> TRUE,
                              last_saved_location |-> JNull],
                  request |-> [pc |-> "idle"]]
    /\ obs = InitObs
    /\ track = InitTrack
    /\ probe = [op |-> "none"]

\* The lines before the loop: load_last_location and the announcement
Startup ==
    /\ threads.poller.pc = "start"
    /\ threads' = [threads EXCEPT
                     !.poller.last_saved_location = load_last_location(St),
                     !.poller.pc = IF announce_raises(load_last_location(St))
                                   THEN "crashed" ELSE "fetch"]
    /\ UNCHANGED <<clock, redis_client, redis_up, redis, files, history, driver,
                   daily_stats, obs, track, probe>>

\* An iteration whose fetch fails: nothing is ingested
FetchFails(outcome) ==
    /\ threads.poller.pc = "fetch"
    /\ threads' = [threads EXCEPT
                     !.poller = PollerAfter([s |-> St, success |-> FALSE], @)]
    /\ probe' = [op |-> "fetch", outcome |-> outcome]
    /\ UNCHANGED <<clock, redis_client, redis_up, redis, files, history, driver,
                   daily_stats, obs, track>>

\* An iteration whose fetch returns 200 and location
FetchIngests(location) ==
    /\ threads.poller.pc = "fetch"
    /\ obs.n < MaxLoopIngests
    /\ Install(AfterFetch(process_fetched_location(St, location, clock, clock),
                          threads.poller, clock))
    /\ threads' = [threads EXCEPT
                     !.poller = PollerAfter(
                                    process_fetched_location(St, location, clock, clock), @)]
    /\ probe' = [op |-> "fetch", outcome |-> "location"]
    /\ obs' = [obs EXCEPT !.n = @ + 1, !.current_time = clock, !.now = clock,
                          !.before = history]
    /\ UNCHANGED <<clock, redis_client, redis_up, track>>

\* time.sleep(60); the clock is followed for LoopTicks minutes
SleepLoop ==
    /\ threads.poller.pc = "sleep"
    /\ clock' = IF clock < StartClock + 60 * LoopTicks THEN clock + 60 ELSE clock
    /\ threads' = [threads EXCEPT !.poller.pc = "fetch"]
    /\ UNCHANGED <<redis_client, redis_up, redis, files, history, driver,
                   daily_stats, obs, track, probe>>

NextLoop ==
    \/ Startup
    \/ \E outcome \in FetchFailures : FetchFails(outcome)
    \/ \E location \in Locations : FetchIngests(location)
    \/ SleepLoop

\* The thread runs whenever it can: it is never suspended for ever
SpecLoop == InitLoop /\ [][NextLoop]_vars /\ WF_vars(NextLoop)

\* C20: the polling loop never terminates: whatever the fetches return and
\* whatever last_location held at startup, a fetch is always followed by
\* another one.
C20_LoopFetchesForever ==
    []<>(threads.poller.pc = "sleep")

----------------------------------------------------------------------------
(* The fetches that fail: no response, a status other than 200, a body     *)
(* without a location, and locations whose coordinates are missing or are  *)
(* not numbers                                                             *)

\* A coordinate of the payload that is not a number (a string, or null)
NotANumber == 0 - 999999

is_number(x) == x # NotANumber

Payloads ==
    Locations
        \cup {[latitude |-> DEFAULT_LATITUDE],
              [latitude |-> NotANumber, longitude |-> DEFAULT_LONGITUDE],
              [latitude |-> 200, longitude |-> NotANumber]}

\* The payload is one the spec calls malformed
Malformed(location) ==
    \/ payload_raises(location)
    \/ ~is_number(location.latitude)
    \/ ~is_number(location.longitude)

\* No fix of the history and no position of the driver holds a non-number
Sound(s) ==
    /\ \A i \in 1..Len(s.history) :
           is_number(s.history[i].latitude) /\ is_number(s.history[i].longitude)
    /\ is_number(s.driver.latitude) /\ is_number(s.driver.longitude)

\* process_fetched_location on coordinates that are not numbers: the first
\* arithmetic on them raises TypeError, in detect_last_position_movement when
\* the driver has a last_position, else in handle_segment_update_for_new_point
\* when the history holds an earlier fix, else nowhere
ProcessNonNumbers(s, lat, lng, current_time, now) ==
    IF s.driver.last_position # NoLoc THEN [s |-> s, success |-> FALSE]
    ELSE IF Len(ProcessHistory(s, lat, lng, current_time, now).history) >= 2
    THEN [s |-> ProcessHistory(s, lat, lng, current_time, now), success |-> FALSE]
    ELSE [s |-> ProcessRest(s, lat, lng, current_time, now), success |-> TRUE]

\* process_fetched_location on any location of the payload
process_any_location(s, location, current_time, now) ==
    IF payload_raises(location) \/ ~Malformed(location)
    THEN process_fetched_location(s, location, current_time, now)
    ELSE ProcessNonNumbers(s, location.latitude, location.longitude, current_time, now)

\* fetch_real_location returning got after the failure named, "none" for a
\* well-formed location
Fetched(got, failure) ==
    /\ threads.poller.pc = "fetch"
    /\ obs.n < MaxIngests
    /\ Sound(St)
    /\ Install(got.s)
    /\ probe' = [op |-> "fetch", failure |-> failure, success |-> got.success,
                 before |-> St]
    /\ obs' = [obs EXCEPT !.n = @ + 1, !.current_time = clock, !.now = clock,
                          !.before = history]
    /\ threads' = [threads EXCEPT !.poller.pc = "sleep"]
    /\ UNCHANGED <<clock, redis_client, redis_up, track>>

NextFetch ==
    \/ \E outcome \in FetchFailures :
           Fetched([s |-> St, success |-> FALSE], outcome)
    \/ \E location \in Payloads :
           Fetched(process_any_location(St, location, clock, clock),
                   IF Malformed(location) THEN "payload" ELSE "none")
    \/ \E d \in Sleeps : Sleep(d)

SpecFetch == InitFaulty /\ [][NextFetch]_vars

\* C21: when the fetch fails - no response, a status other than 200, or a
\* malformed payload - the ingest reports failure and DriverState, the
\* history, the DailyRecords and LegacyDailyStats are as they were before.
C21_FailedFetchChangesNothing ==
    (probe.op = "fetch" /\ probe.failure # "none") =>
        /\ ~probe.success
        /\ driver = probe.before.driver
        /\ history = probe.before.history
        /\ daily_stats = probe.before.daily_stats
        /\ files = probe.before.files
        /\ redis = probe.before.redis

----------------------------------------------------------------------------
(* Properties of the two ingesting threads *)

\* C22: at most one ingest executes at any time: the polling loop is the
\* only source of ingests, and a request for the snapshot never runs one
\* beside it.
C22_OneIngestAtATime ==
    /\ ~Begun("request")
    /\ InFlight <= 1

----------------------------------------------------------------------------
(* Two threads ingesting, each interrupted inside trim_history_hours       *)
(* between building the filtered list and assigning it to the history      *)

InitTrim ==
    /\ redis_client = FALSE
    /\ clock = StartClock
    /\ redis_up = TRUE
    /\ redis = <<>>
    /\ files = <<>>
    /\ history = <<>>
    /\ driver = InitDriver
    /\ daily_stats = <<>>
    /\ threads = InitThreads
    /\ obs = InitObs
    /\ track = InitTrack
    /\ probe = [op |-> "trim", appended |-> {}]

\* process_fetched_location from append_history_point to the list that
\* trim_history_hours builds
AppendAndFilter(th) ==
    /\ Begun(th)
    /\ Install(periodic_persist_history(
                   append_history_point(St, threads[th].latitude, DEFAULT_LONGITUDE,
                                        threads[th].current_time)))
    /\ threads' = [threads EXCEPT
                     ![th] = [pc |-> "filtered",
                              current_time |-> threads[th].current_time,
                              latitude |-> threads[th].latitude,
                              kept |-> ProcessHistory(St, threads[th].latitude,
                                                      DEFAULT_LONGITUDE,
                                                      threads[th].current_time,
                                                      clock).history]]
    /\ probe' = [probe EXCEPT
                   !.appended = @ \cup {Fix(threads[th].latitude, DEFAULT_LONGITUDE,
                                            threads[th].current_time)}]
    /\ UNCHANGED <<clock, redis_client, redis_up, obs, track>>

\* The assignment of the filtered list to the history, and
\* process_fetched_location from there on
ReplaceAndFinish(th) ==
    /\ threads[th].pc = "filtered"
    /\ Install(ProcessSegment(
                   handle_segment_update_for_new_point(
                       [St EXCEPT !.history = threads[th].kept],
                       threads[th].latitude, DEFAULT_LONGITUDE, threads[th].current_time),
                   threads[th].latitude, DEFAULT_LONGITUDE,
                   threads[th].current_time, clock))
    /\ obs' = [obs EXCEPT !.n = @ + 1,
                          !.current_time = threads[th].current_time,
                          !.now = clock,
                          !.latitude = threads[th].latitude,
                          !.before = history]
    /\ threads' = [threads EXCEPT
                     ![th] = [pc |-> IF th = "poller" THEN "sleep" ELSE "idle"]]
    /\ UNCHANGED <<clock, redis_client, redis_up, track, probe>>

\* The ingests begun so far, finished or not
StartedTrims ==
    obs.n + Cardinality({th \in DOMAIN threads : threads[th].pc \in {"fetched", "filtered"}})

NextTrim ==
    \/ \E th \in DOMAIN threads, lat \in SlowLats, d \in Delays :
           StartedTrims < MaxStarted /\ Begin(th, lat, d)
    \/ \E th \in DOMAIN threads : AppendAndFilter(th)
    \/ \E th \in DOMAIN threads : ReplaceAndFinish(th)
    \/ Wake

SpecTrim == InitTrim /\ [][NextTrim]_vars

\* C23: no append to the history is lost to a race: once every ingest in
\* flight has finished, every fix an ingest appended with a timestamp within
\* the last hour is in the history.
C23_NoAppendLost ==
    StartedTrims = obs.n =>
        \A fix \in probe.appended :
            fix.timestamp >= clock - HISTORY_HOURS * SECONDS_PER_HOUR
                => \E i \in 1..Len(history) : history[i] = fix

----------------------------------------------------------------------------
(* The polling loop around midnight, with ingests that take time: the day  *)
(* update_daily_tracking reads may be the day after the fix's              *)

\* A minute and a second before the midnight that ends StoreDay
NearMidnight == (StoreDay + 1) * SECONDS_PER_DAY - 61

InitMidnight ==
    /\ redis_client = FALSE
    /\ clock \in {NearMidnight, NearMidnight + 1}
    /\ redis_up = TRUE
    /\ redis = <<>>
    /\ files = <<>>
    /\ history = <<>>
    /\ driver = InitDriver
    /\ daily_stats = <<>>
    /\ threads = InitThreads
    /\ obs = InitObs
    /\ track = InitTrack
    /\ probe = <<>>

SpecMidnight == InitMidnight /\ [][NextLatency]_vars

DailyKeys == {k \in DOMAIN files : k.name = "daily"}

\* C24: every sample of the minute_locations stored for date D has a
\* timestamp on date D and a minute index in 0..1439, also when midnight
\* passes during an ingest.
C24_SamplesOnTheirDate ==
    \A k \in DailyKeys :
        \A i \in 1..Len(files[k].val.minute_locations) :
            /\ DayOf(files[k].val.minute_locations[i].timestamp) = k.day
            /\ files[k].val.minute_locations[i].minute \in 0..1439

----------------------------------------------------------------------------
(* Properties of the DailyRecords in the polling loop *)

\* The record stored for day after the step, in Redis if it is there
StoredAfter(day) ==
    IF K_DAILY(day) \in DOMAIN redis' THEN redis'[K_DAILY(day)] ELSE files'[K_DAILY(day)]

\* The step ingests the first fix of a date after a fix of the date before,
\* and no record of the new date is stored
FirstFixOfDate ==
    /\ obs'.n = obs.n + 1
    /\ track.last.day # NoneVal
    /\ track.last.day # DayOf(obs'.current_time)
    /\ K_DAILY(DayOf(obs'.current_time)) \notin DOMAIN redis \cup DOMAIN files

\* C25: when the first fix of a date is ingested and no DailyRecord exists
\* for the date, the record created has the position and the timestamp of
\* that fix as its start_location.
C25_StartLocationIsFirstFix ==
    [][FirstFixOfDate =>
           StoredAfter(DayOf(obs'.current_time)).val.start_location
               = Fix(obs'.latitude, DEFAULT_LONGITUDE, obs'.current_time)]_vars

----------------------------------------------------------------------------
(* Properties of minute_locations *)

\* At most one entry per minute index, in ascending order of minute
OnePerMinuteAscending(locs) ==
    \A i, j \in 1..Len(locs) : i < j => locs[i].minute < locs[j].minute

\* C26: in every DailyRecord returned to a caller minute_locations holds at
\* most one entry per minute index and is ordered by ascending minute, also
\* in a record produced by migrating an old-schema record.
C26_OneEntryPerMinute ==
    (probe # <<>> /\ probe.stage # "read") =>
        OnePerMinuteAscending(probe.upcast.minute_locations)

----------------------------------------------------------------------------
(* add_minute_location applied to one DailyRecord, one sample after another *)

MaxAdds == 3

AddTimestamps == {StartClock + 60, StartClock + 90, StartClock + 120}

AddLats == {0, 200}

AddSpeeds == {0, 30000}

InitMinutes ==
    /\ clock = StartClock
    /\ redis_client = FALSE
    /\ redis_up = TRUE
    /\ redis = <<>>
    /\ files = <<>>
    /\ history = <<>>
    /\ driver = InitDriver
    /\ daily_stats = <<>>
    /\ threads = InitThreads
    /\ obs = InitObs
    /\ track = InitTrack
    /\ probe = [op |-> "created", n |-> 0,
                after |-> EmptyDailyData(StoreDay, StartClock, 0, DEFAULT_LONGITUDE)]

AddSample(timestamp, lat, speed, is_moving) ==
    /\ probe.n < MaxAdds
    /\ probe' = [op |-> "added", n |-> probe.n + 1,
                 before |-> probe.after,
                 sample |-> [timestamp |-> timestamp, latitude |-> lat,
                             speed |-> speed, is_moving |-> is_moving],
                 after |-> add_minute_location(probe.after, timestamp, lat,
                                               DEFAULT_LONGITUDE, speed, is_moving)]
    /\ UNCHANGED <<clock, redis_client, redis_up, redis, files, history, driver,
                   daily_stats, threads, obs, track>>

NextMinutes ==
    \E timestamp \in AddTimestamps, lat \in AddLats, speed \in AddSpeeds,
       is_moving \in BOOLEAN :
        AddSample(timestamp, lat, speed, is_moving)

SpecMinutes == InitMinutes /\ [][NextMinutes]_vars

\* The sample has the position and timestamp of the last stored entry
RepeatsLastEntry(daily_data, sample) ==
    LET locs == daily_data.minute_locations IN
    /\ locs # <<>>
    /\ locs[Len(locs)].latitude = sample.latitude
    /\ locs[Len(locs)].longitude = DEFAULT_LONGITUDE
    /\ locs[Len(locs)].timestamp = sample.timestamp

\* C27: adding a sample classified not moving, or one with the latitude,
\* longitude and timestamp of the previously stored point, leaves
\* minute_locations, end_location and end_time of the DailyRecord unchanged.
C27_SkippedSampleChangesNothing ==
    (/\ probe.op = "added"
     /\ \/ ~probe.sample.is_moving
        \/ RepeatsLastEntry(probe.before, probe.sample))
        => /\ probe.after.minute_locations = probe.before.minute_locations
           /\ probe.after.end_location = probe.before.end_location
           /\ probe.after.end_time = probe.before.end_time

\* A moving sample repeats the last entry with another speed and is skipped
C27_RepeatedSampleSkipped ==
    /\ probe.op = "added"
    /\ probe.sample.is_moving
    /\ RepeatsLastEntry(probe.before, probe.sample)
    /\ probe.before.minute_locations[Len(probe.before.minute_locations)].speed
           # probe.sample.speed
    /\ probe.after = probe.before

----------------------------------------------------------------------------
(* Road distance: the routing service and the two places that call it *)

\* Road distances are in 0.00001 mi, so that 1.3 times a haversine distance
\* (in 0.0001 mi) is a whole number
DEST_LAT == 40000

DEST_LNG == 0

MaxRequests == 2

\* What requests.get and response.json() give: an exception or a timeout, a
\* status other than 200, a body without routes, or a route in metres
RouteMetres == {0, 161, 400}

RoutingResponses ==
    {[kind |-> k] : k \in {"exception", "timeout", "status", "no_routes"}}
        \cup {[kind |-> "routes", distance |-> m] : m \in RouteMetres}

RoutingUnavailable(response) == response.kind # "routes"

\* route['distance'] / 1609.34, as m * 100000 / 1.60934
MetresToMiles(m) == (m * 5000000) \div 80467

\* straight_distance * 1.3
EstimatedRoadDistance(start_lat, start_lng, end_lat, end_lng) ==
    haversine_distance(start_lat, start_lng, end_lat, end_lng) * 13

calculate_road_distance(start_lat, start_lng, end_lat, end_lng, response) ==
    IF response.kind = "routes"
    THEN MetresToMiles(response.distance)
    ELSE EstimatedRoadDistance(start_lat, start_lng, end_lat, end_lng)

\* round(road_distance, 1)
RoundTenth(x) == ((x + 5000) \div 10000) * 10000

\* osrm_road_distance of get_location's answer
osrm_road_distance(response) ==
    IF response.kind = "routes"
    THEN RoundTenth(MetresToMiles(response.distance))
    ELSE NoneVal

RoadLats == {0, 200, 40000}

InitRoute ==
    /\ redis_client = FALSE
    /\ redis_up = TRUE
    /\ clock = StartClock
    /\ redis = <<>>
    /\ files = <<>>
    /\ history = <<>>
    /\ driver = InitDriver
    /\ daily_stats = <<>>
    /\ threads = InitThreads
    /\ obs = InitObs
    /\ track = InitTrack
    /\ probe = [op |-> "none", n |-> 0]

\* calculate_road_distance called for a stretch of the journey
RoadDistance(start_lat, end_lat, response) ==
    /\ probe.op = "none"
    /\ probe' = [op |-> "calculate_road_distance", n |-> probe.n, response |-> response,
                 start_lat |-> start_lat, end_lat |-> end_lat,
                 reported |-> calculate_road_distance(
                                  start_lat, DEFAULT_LONGITUDE,
                                  end_lat, DEFAULT_LONGITUDE, response)]
    /\ UNCHANGED <<clock, redis_client, redis_up, redis, files, history, driver,
                   daily_stats, threads, obs, track>>

----------------------------------------------------------------------------
(* build_journey_history *)

\* 1.0 mile: a first fix nearer than this to the daily start is skipped
NEAR_START_DISTANCE == 10000

MaxJourney == 4

MaxPoints == 3

PointOf(p) == [lat |-> p.latitude, lng |-> p.longitude, timestamp |-> p.timestamp]

\* The entries of stats that have a start_location and a start_time older
\* than earliest_gps_time
OlderStarts(stats, earliest_gps_time) ==
    {d \in DOMAIN stats :
        /\ stats[d].start_location # NoLoc
        /\ stats[d].start_time # 0
        /\ stats[d].start_time < earliest_gps_time}

find_earliest_daily_start(stats, earliest_gps_time) ==
    LET older == OlderStarts(stats, earliest_gps_time) IN
    IF older = {} THEN NoLoc
    ELSE LET d == CHOOSE e \in older :
                      \A o \in older : stats[e].start_time <= stats[o].start_time
         IN [latitude |-> stats[d].start_location.latitude,
             longitude |-> stats[d].start_location.longitude,
             timestamp |-> stats[d].start_time,
             date |-> d,
             start_time |-> stats[d].start_time]

\* step = 1 if total_points <= max_points else max(1, total_points // max_points)
journey_step(total_points, max_points) ==
    IF total_points <= max_points THEN 1
    ELSE Max(1, total_points \div max_points)

sample_start_index(sorted_history, earliest_daily_start, step) ==
    IF /\ earliest_daily_start # NoLoc
       /\ sorted_history # <<>>
       /\ haversine_distance(earliest_daily_start.latitude,
                             earliest_daily_start.longitude,
                             sorted_history[1].latitude,
                             sorted_history[1].longitude) < NEAR_START_DISTANCE
    THEN step
    ELSE 0

\* range(start_index, len(sorted_history), step), counted from 0
RECURSIVE SampleFrom(_, _, _)
SampleFrom(sorted_history, i, step) ==
    IF i >= Len(sorted_history) THEN <<>>
    ELSE <<PointOf(sorted_history[i + 1])>> \o SampleFrom(sorted_history, i + step, step)

sample_history_points(sorted_history, earliest_daily_start, step) ==
    SampleFrom(sorted_history,
               sample_start_index(sorted_history, earliest_daily_start, step), step)

EarliestGpsTime(sorted_history, now) ==
    IF sorted_history # <<>> THEN sorted_history[1].timestamp ELSE now

JourneyStart(earliest_daily_start) ==
    IF earliest_daily_start # NoLoc THEN <<PointOf(earliest_daily_start)>> ELSE <<>>

\* journey_history before the most recent point is ensured
JourneySampled(sorted_history, earliest_daily_start, max_points) ==
    JourneyStart(earliest_daily_start)
        \o sample_history_points(sorted_history, earliest_daily_start,
                                 journey_step(Len(sorted_history), max_points))

WithMostRecent(journey_history, sorted_history) ==
    IF sorted_history = <<>> THEN journey_history
    ELSE IF \/ journey_history = <<>>
            \/ journey_history[Len(journey_history)].timestamp
                   # sorted_history[Len(sorted_history)].timestamp
    THEN Append(journey_history, PointOf(sorted_history[Len(sorted_history)]))
    ELSE journey_history

\* build_journey_history without the step that ensures the most recent point
build_journey_history_unclosed(gps_history, stats, max_points, now) ==
    IF gps_history = <<>> /\ DOMAIN stats = {} THEN <<>>
    ELSE JourneySampled(
             SortByTimestamp(gps_history),
             find_earliest_daily_start(
                 stats, EarliestGpsTime(SortByTimestamp(gps_history), now)),
             max_points)

build_journey_history(gps_history, stats, max_points, now) ==
    IF gps_history = <<>> /\ DOMAIN stats = {} THEN <<>>
    ELSE WithMostRecent(
             JourneySampled(
                 SortByTimestamp(gps_history),
                 find_earliest_daily_start(
                     stats, EarliestGpsTime(SortByTimestamp(gps_history), now)),
                 max_points),
             SortByTimestamp(gps_history))

JourneyFixes ==
    {Fix(0, DEFAULT_LONGITUDE, StartClock),
     Fix(200, DEFAULT_LONGITUDE, StartClock + 60),
     Fix(20000, DEFAULT_LONGITUDE, StartClock + 120),
     Fix(20200, DEFAULT_LONGITUDE, StartClock + 180),
     Fix(40000, DEFAULT_LONGITUDE, StartClock + 240)}

\* Histories of distinct fixes in any order
JourneyHistories ==
    UNION {{h \in [1..n -> JourneyFixes] :
               \A i, j \in 1..n : i # j => h[i] # h[j]} : n \in 0..MaxJourney}

StatsWithStart(lat, start_time) ==
    DayOf(start_time) :> [NewStatsEntry(start_time) EXCEPT
                              !.start_location = [latitude |-> lat,
                                                  longitude |-> DEFAULT_LONGITUDE]]

\* No entry, an entry without start_location, a start of the day before near
\* to or far from the first fix, and a start later than the first fix
JourneyStats ==
    {<<>>,
     DayOf(StartClock) :> NewStartEntry(StartClock - 60),
     StatsWithStart(0, StartClock - SECONDS_PER_DAY),
     StatsWithStart(20000, StartClock - SECONDS_PER_DAY),
     StatsWithStart(0, StartClock + 60)}

InitJourney ==
    /\ clock = StartClock + 300
    /\ redis_client = FALSE
    /\ redis_up = TRUE
    /\ redis = <<>>
    /\ files = <<>>
    /\ driver = InitDriver
    /\ threads = InitThreads
    /\ obs = InitObs
    /\ track = InitTrack
    /\ history \in JourneyHistories
    /\ daily_stats \in JourneyStats
    /\ probe \in {[op |-> "none", max_points |-> m] : m \in 1..MaxPoints}

BuildJourney ==
    /\ probe.op = "none"
    /\ probe' = [op |-> "built", max_points |-> probe.max_points,
                 step |-> journey_step(Len(history), probe.max_points),
                 start |-> find_earliest_daily_start(
                               daily_stats,
                               EarliestGpsTime(SortByTimestamp(history), clock)),
                 sampled |-> sample_history_points(
                                 SortByTimestamp(history),
                                 find_earliest_daily_start(
                                     daily_stats,
                                     EarliestGpsTime(SortByTimestamp(history), clock)),
                                 journey_step(Len(history), probe.max_points)),
                 journey_history |-> build_journey_history(
                                         history, daily_stats, probe.max_points, clock)]
    /\ UNCHANGED <<clock, redis_client, redis_up, redis, files, history, driver,
                   daily_stats, threads, obs, track>>

NextJourney == BuildJourney

SpecJourney == InitJourney /\ [][NextJourney]_vars

CeilDiv(a, b) == (a + b - 1) \div b

\* C29: over N history fixes and limit maxPoints the history is sampled with
\* stride ceil(N / maxPoints), so the number of sampled history fixes never
\* exceeds maxPoints.
C29_SampledWithinLimit ==
    (probe.op = "built" /\ history # <<>>) =>
        /\ probe.step = CeilDiv(Len(history), probe.max_points)
        /\ Len(probe.sampled) <= probe.max_points

GreatestTimestamp(h) ==
    CHOOSE ts \in {h[i].timestamp : i \in 1..Len(h)} :
        \A i \in 1..Len(h) : h[i].timestamp <= ts

\* C30: whenever the history is non-empty the last element of the result is
\* the fix with the greatest timestamp, whatever the order of the history,
\* the stride and the presence of a synthetic daily start.
C30_LastIsMostRecent ==
    (probe.op = "built" /\ history # <<>>) =>
        /\ probe.journey_history # <<>>
        /\ probe.journey_history[Len(probe.journey_history)].timestamp
               = GreatestTimestamp(history)
        /\ \E i \in 1..Len(history) :
               probe.journey_history[Len(probe.journey_history)] = PointOf(history[i])

\* An unsorted history sampled with stride 2 after a synthetic start, whose
\* most recent fix the sampling passed over
C30_MostRecentAppended ==
    /\ probe.op = "built"
    /\ history # SortByTimestamp(history)
    /\ probe.start # NoLoc
    /\ probe.step = 2
    /\ Len(probe.journey_history) = Len(probe.sampled) + 2

----------------------------------------------------------------------------
(* calculate_journey_average *)

\* date(2025, 9, 15), as a day number
JOURNEY_START_DAY == 1

NotAvailable == [kind |-> "N/A"]

RECURSIVE SumTravelTime(_, _)
SumTravelTime(stats, days) ==
    IF days = {} THEN 0
    ELSE LET d == CHOOSE x \in days : TRUE
         IN GetOr(stats[d], "total_travel_time", 0) + SumTravelTime(stats, days \ {d})

\* Seconds of total_travel_time of the entries of day_key >= start_date
TravelSecondsSince(stats, start_day) ==
    SumTravelTime(stats, {d \in DOMAIN stats : d >= start_day})

\* The part of calculate_journey_average after get_current_day_data: s is
\* the state and today_data the record it returned
JourneyAverageFrom(s, today_data, start_location) ==
    LET current_location ==
            IF today_data.type = "dict" /\ today_data.val.end_location # NoLoc
            THEN today_data.val.end_location
            ELSE [latitude |-> s.driver.latitude, longitude |-> s.driver.longitude]
        total_distance ==
            haversine_distance(start_location.latitude, start_location.longitude,
                               current_location.latitude, current_location.longitude)
        total_seconds ==
            IF K_STATS \in DOMAIN s.files
            THEN TravelSecondsSince(s.files[K_STATS].val, JOURNEY_START_DAY)
            ELSE 0
    IN IF K_STATS \in DOMAIN s.files /\ s.files[K_STATS].type # "dict"
       THEN NotAvailable
       ELSE IF total_seconds > 0
       THEN [kind |-> "average", distance |-> total_distance, seconds |-> total_seconds]
       ELSE NotAvailable

\* Returns [s |-> the state after, r |-> the average or NotAvailable]: the
\* start record and the stats are read from the files, never from Redis
calculate_journey_average(s, now) ==
    LET start_file == K_DAILY(JOURNEY_START_DAY) IN
    IF start_file \notin DOMAIN s.files THEN [s |-> s, r |-> NotAvailable]
    ELSE IF s.files[start_file].type # "dict" THEN [s |-> s, r |-> NotAvailable]
    ELSE IF GetOr(s.files[start_file].val, "start_location", NoLoc) = NoLoc
    THEN [s |-> s, r |-> NotAvailable]
    ELSE [s |-> get_current_day_data(s, now).s,
          r |-> JourneyAverageFrom(get_current_day_data(s, now).s,
                                   get_current_day_data(s, now).r,
                                   s.files[start_file].val.start_location)]

\* The record of the journey's start date as the adapter holds it
StartRecordStored ==
    \/ /\ K_DAILY(JOURNEY_START_DAY) \in DOMAIN files
       /\ files[K_DAILY(JOURNEY_START_DAY)].type = "dict"
    \/ /\ redis_client
       /\ K_DAILY(JOURNEY_START_DAY) \in DOMAIN redis
       /\ redis[K_DAILY(JOURNEY_START_DAY)].type = "dict"

InitAverage ==
    /\ redis_client \in BOOLEAN
    /\ clock = StartClock
    /\ redis_up = TRUE
    /\ redis = <<>>
    /\ files = <<>>
    /\ history = <<>>
    /\ driver = InitDriver
    /\ daily_stats = <<>>
    /\ threads = InitThreads
    /\ obs = InitObs
    /\ track = InitTrack
    /\ probe = [op |-> "none"]

\* The average is asked for between two steps of the loop
JourneyAverage ==
    /\ Install(calculate_journey_average(St, clock).s)
    /\ probe' = [op |-> "journey_average",
                 result |-> calculate_journey_average(St, clock).r,
                 recorded |-> TravelSecondsSince(daily_stats, JOURNEY_START_DAY),
                 start_stored |-> StartRecordStored]
    /\ UNCHANGED <<clock, redis_client, redis_up, threads, obs, track>>

NextAverage ==
    \/ \E lat \in Lats : Poll(lat)
    \/ \E d \in Sleeps : Sleep(d)
    \/ RedisFails
    \/ RedisRecovers
    \/ JourneyAverage

SpecAverage == InitAverage /\ [][NextAverage]_vars

\* C31: journeyAverage divides by the cumulative travel seconds ingest has
\* recorded in LegacyDailyStats for the dates from the journey start on, as
\* last persisted through the adapter, and is unavailable only when that
\* total is 0 or the record of the start date is missing.
C31_AverageOverRecordedSeconds ==
    probe.op = "journey_average" =>
        IF probe.recorded = 0 \/ ~probe.start_stored
        THEN probe.result = NotAvailable
        ELSE /\ probe.result.kind = "average"
             /\ probe.result.seconds = probe.recorded

----------------------------------------------------------------------------
(* The list an ingest persists under location_history *)

\* The content save_historical_data has just written
PersistedHistory ==
    IF redis_client /\ redis_up THEN redis'[K_HISTORY].val ELSE files'[K_HISTORY].val

\* C32: within one ingest the steps run in the order append, trim to one
\* hour, conditional flush, so every list persisted under location_history
\* by an ingest at time now holds only fixes with timestamp >= now - 3600.
C32_PersistedWithinTheHour ==
    [][(obs'.n = obs.n + 1 /\ obs'.flushed) =>
           \A i \in 1..Len(PersistedHistory) :
               PersistedHistory[i].timestamp
                   >= obs'.now - HISTORY_HOURS * SECONDS_PER_HOUR]_vars

----------------------------------------------------------------------------
(* Creation of DailyRecords *)

StartOf(content) ==
    [start_time |-> content.val.start_time,
     start_location |-> content.val.start_location]

\* The starts of the records the two backends hold for a key
StoredStarts(in_redis, in_files, k) ==
    {StartOf(in_redis[j]) : j \in {x \in DOMAIN in_redis : x = k /\ in_redis[x].type = "dict"}}
        \cup {StartOf(in_files[j]) :
                  j \in {x \in DOMAIN in_files : x = k /\ in_files[x].type = "dict"}}

\* C33: a DailyRecord is created at most once per date: once a record
\* exists for a date no step stores a record of that date with another
\* start_time or start_location, also when a read fails in one backend.
C33_CreatedOncePerDate ==
    [][\A k \in {x \in DOMAIN redis \cup DOMAIN files : x.name = "daily"} :
           StoredStarts(redis, files, k) # {} =>
               StoredStarts(redis', files', k) \subseteq StoredStarts(redis, files, k)]_vars

----------------------------------------------------------------------------
(* Previous-day stats, startup initialisation and the /api/location handler *)

\* load_daily_file(yesterday), then save_daily_file when the distance is 0
SavePreviousDay(loaded, yesterday) ==
    IF loaded.r.type = "dict" /\ GetOr(loaded.r.val, "total_distance_miles", 0) = 0
    THEN save_daily_file(loaded.s, yesterday, WithDistance(loaded.r.val))
    ELSE loaded.s

\* Returns [s |-> the state after, r |-> the record the stats are taken from]
get_previous_day_stats(s, now) ==
    [s |-> SavePreviousDay(load_daily_file(s, DayOf(now) - 1), DayOf(now) - 1),
     r |-> load_daily_file(s, DayOf(now) - 1).r]

\* Ensure current day file exists: no second look at the file as in
\* get_current_day_data
EnsureToday(s, today, now) ==
    IF load_daily_file(s, today).r = JNull
    THEN create_empty_daily_file(load_daily_file(s, today).s, today, now,
                                 s.driver.latitude, s.driver.longitude).s
    ELSE load_daily_file(s, today).s

initialize_daily_files_on_startup(s, now) ==
    EnsureToday(SavePreviousDay(load_daily_file(s, DayOf(now) - 1), DayOf(now) - 1),
                DayOf(now), now)

\* What get_location leaves behind once fetch_real_location has returned:
\* get_current_day_data creates today's record when there is none,
\* get_previous_day_stats may save yesterday's, and calculate_journey_average
\* asks for today's record again
AfterRequest(s) ==
    calculate_journey_average(
        get_previous_day_stats(get_current_day_data(s, clock).s, clock).s, clock).s

\* /api/location whose fetch returns a location: the fix is ingested, then
\* the answer is built
GetLocation(lat, response) ==
    /\ probe.n < MaxRequests
    /\ Install(AfterRequest(ProcessRest(St, lat, DEFAULT_LONGITUDE, clock, clock)))
    /\ Record(ObsOf(St, lat, DEFAULT_LONGITUDE, clock, clock))
    /\ probe' = [op |-> "get_location", n |-> probe.n + 1, response |-> response,
                 start_lat |-> driver'.latitude, end_lat |-> DEST_LAT,
                 reported |-> osrm_road_distance(response)]
    /\ UNCHANGED <<clock, redis_client, redis_up, threads>>

\* /api/location whose fetch fails: nothing is ingested
GetLocationUnfetched(response) ==
    /\ probe.n < MaxRequests
    /\ Install(AfterRequest(St))
    /\ probe' = [op |-> "get_location", n |-> probe.n + 1, response |-> response,
                 start_lat |-> driver.latitude, end_lat |-> DEST_LAT,
                 reported |-> osrm_road_distance(response)]
    /\ UNCHANGED <<clock, redis_client, redis_up, threads, obs, track>>

\* Time passes between two requests
Wait(d) ==
    /\ probe.n < MaxRequests
    /\ probe.op = "get_location"
    /\ clock' = clock + d
    /\ probe' = [op |-> "none", n |-> probe.n]
    /\ UNCHANGED <<redis_client, redis_up, redis, files, history, driver,
                   daily_stats, threads, obs, track>>

NextRoute ==
    \/ \E start_lat, end_lat \in RoadLats, response \in RoutingResponses :
           RoadDistance(start_lat, end_lat, response)
    \/ \E lat \in RoadLats, response \in RoutingResponses : GetLocation(lat, response)
    \/ \E response \in RoutingResponses : GetLocationUnfetched(response)
    \/ \E d \in Delays : Wait(d)

SpecRoute == InitRoute /\ [][NextRoute]_vars

\* C28: whenever the routing service is unavailable (exception or timeout,
\* status other than 200, no routes in the answer) the road distance
\* reported is the haversine distance times 1.3, never an error or absent.
C28_FallbackRoadDistance ==
    (probe.op # "none" /\ RoutingUnavailable(probe.response)) =>
        probe.reported = EstimatedRoadDistance(probe.start_lat, DEFAULT_LONGITUDE,
                                               probe.end_lat, DEFAULT_LONGITUDE)

MaxDailySteps == 3

DailyWaits == {60, 3600}

DailyLats == {0, 200}

InitDaily ==
    /\ redis_client \in BOOLEAN
    /\ clock = StartClock
    /\ redis_up = TRUE
    /\ redis = <<>>
    /\ files = <<>>
    /\ history = <<>>
    /\ driver = InitDriver
    /\ daily_stats = <<>>
    /\ threads = InitThreads
    /\ obs = InitObs
    /\ track = InitTrack
    /\ probe = [op |-> "boot", n |-> 0]

\* initialize_app up to the start of the background thread
StartupDaily ==
    /\ probe.op = "boot"
    /\ Install(initialize_daily_files_on_startup(St, clock))
    /\ probe' = [op |-> "startup", n |-> 0]
    /\ UNCHANGED <<clock, redis_client, redis_up, threads, obs, track>>

\* One iteration of the background loop whose fetch succeeds
IngestDaily(lat) ==
    /\ probe.op # "boot"
    /\ probe.n < MaxDailySteps
    /\ IngestNow(lat, 0)
    /\ probe' = [op |-> "ingest", n |-> probe.n + 1]
    /\ UNCHANGED <<redis_client, redis_up, threads>>

\* /api/location whose fetch fails
RequestDaily ==
    /\ probe.op # "boot"
    /\ probe.n < MaxDailySteps
    /\ Install(AfterRequest(St))
    /\ probe' = [op |-> "get_location", n |-> probe.n + 1]
    /\ UNCHANGED <<clock, redis_client, redis_up, threads, obs, track>>

WaitDaily(d) ==
    /\ probe.op \in {"startup", "ingest", "get_location"}
    /\ probe.n < MaxDailySteps
    /\ clock' = clock + d
    /\ probe' = [op |-> "wait", n |-> probe.n]
    /\ UNCHANGED <<redis_client, redis_up, redis, files, history, driver,
                   daily_stats, threads, obs, track>>

NextDaily ==
    \/ StartupDaily
    \/ \E lat \in DailyLats : IngestDaily(lat)
    \/ RequestDaily
    \/ \E d \in DailyWaits : WaitDaily(d)
    \/ CacheFails
    \/ CacheRecovers

SpecDaily == InitDaily /\ [][NextDaily]_vars

\* What a backend holds under a key, JNull when it holds nothing
HeldUnder(store, k) == IF k \in DOMAIN store THEN store[k] ELSE JNull

\* A step of the startup initialisation or of a request whose fetch failed
ReadsPreviousDay ==
    \/ probe.op = "boot" /\ probe'.op = "startup"
    \/ probe'.op = "get_location" /\ probe'.n = probe.n + 1

\* C34: a previous-day query only reads: after the date has rolled over,
\* computing the previous day's stats, and the startup initialisation,
\* leave the stored DailyRecord of the past date unchanged in both backends.
C34_PreviousDayOnlyRead ==
    [][ReadsPreviousDay =>
           /\ HeldUnder(redis', K_DAILY(DayOf(clock) - 1))
                  = HeldUnder(redis, K_DAILY(DayOf(clock) - 1))
           /\ HeldUnder(files', K_DAILY(DayOf(clock) - 1))
                  = HeldUnder(files, K_DAILY(DayOf(clock) - 1))]_vars

----------------------------------------------------------------------------
(* Speeds: the loop with fixes far apart and a last location saved earlier *)

SpeedSaved ==
    {Fix(lat, DEFAULT_LONGITUDE, ts) :
        lat \in {0, 40000},
        ts \in {StartClock - 9 * SECONDS_PER_HOUR, StartClock - 60, StartClock}}

SpeedFiles == {<<>>} \cup {SetKey(<<>>, K_LAST, JDict(v)) : v \in SpeedSaved}

InitSpeed ==
    /\ redis_client = FALSE
    /\ clock = StartClock
    /\ redis_up = TRUE
    /\ redis = <<>>
    /\ files \in SpeedFiles
    /\ history = <<>>
    /\ driver = InitDriver
    /\ daily_stats = <<>>
    /\ threads = [poller |-> [pc |-> "start", first_update |-> TRUE,
                              last_saved_location |-> JNull],
                  request |-> [pc |-> "idle"]]
    /\ obs = InitObs
    /\ track = InitTrack
    /\ probe = [op |-> "none"]

NextSpeed ==
    \/ Startup
    \/ \E outcome \in FetchFailures : FetchFails(outcome)
    \/ \E lat \in Lats :
           FetchIngests([latitude |-> lat, longitude |-> DEFAULT_LONGITUDE])
    \/ SleepLoop

SpecSpeed == InitSpeed /\ [][NextSpeed]_vars

SpeedInRange(speed) == 0 <= speed /\ speed <= MAX_REALISTIC_SPEED * 1000

\* C35: in every reachable state DriverState.speed and every windowed speed
\* returned (speed over a window, display speed, average moving speed,
\* startup speed) lie in [0, MAX_REALISTIC_SPEED]; a computed speed above
\* the cap, or one from a non-positive time difference, is replaced by 0.
C35_SpeedsWithinCap ==
    /\ SpeedInRange(driver.speed)
    /\ \A minutes \in {1, 5} : SpeedInRange(calculate_speed(St, minutes, clock))
    /\ SpeedInRange(calculate_vehicle_icon_speed(St, clock))
    /\ \A minutes \in {10, 30, 60} :
           SpeedInRange(calculate_average_moving_speed(St, minutes, clock))
    /\ SpeedInRange(calculate_startup_speed(threads.poller.last_saved_location,
                                            driver.latitude, driver.longitude, clock))

\* Two fixes a minute and 4 miles apart: 240 mph is computed and 0 returned
C35_ImplausibleSpeedZeroed ==
    /\ Len(history) = 2
    /\ history[2].timestamp > history[1].timestamp
    /\ SpeedOf(haversine_distance(history[1].latitude, history[1].longitude,
                                  history[2].latitude, history[2].longitude),
               history[2].timestamp - history[1].timestamp)
           > MAX_REALISTIC_SPEED * 1000
    /\ clock - history[1].timestamp <= 60
    /\ calculate_speed(St, 1, clock) = 0
    /\ driver.speed = 0

----------------------------------------------------------------------------
(* LegacyDailyStats.total_miles against the segments ingested *)

MilesOf(stats, day) == IF day \in DOMAIN stats THEN stats[day].total_miles ELSE 0

\* The segment from the fix ingested immediately before (the driver's
\* position and last_updated) to the fix of this step
SegmentFromPrevious ==
    [distance |-> haversine_distance(driver.latitude, driver.longitude,
                                     obs'.latitude, DEFAULT_LONGITUDE),
     elapsed |-> obs'.current_time - driver.last_updated]

AcceptedSegment(seg) ==
    /\ seg.elapsed > 0
    /\ is_realistic_speed(SpeedOf(seg.distance, seg.elapsed))
    /\ seg.distance > SEGMENT_MIN_DISTANCE

\* C36: total_miles of a date is the sum of the distances of the accepted
\* segments of that date (elapsed > 0, realistic speed, distance > 0.001 mi),
\* each measured from the fix ingested immediately before: every ingest
\* after the first adds exactly its segment's distance when it is accepted.
C36_TotalMilesSumsSegments ==
    [][(obs'.n = obs.n + 1 /\ obs.n >= 1) =>
           MilesOf(daily_stats', DayOf(obs'.current_time))
               = MilesOf(daily_stats, DayOf(obs'.current_time))
                   + (IF AcceptedSegment(SegmentFromPrevious)
                      THEN SegmentFromPrevious.distance ELSE 0)]_vars

----------------------------------------------------------------------------
(* stopped_since across ingests *)

\* An ingest of a fix at the position of the fix before it, made while
\* stopped_since is set: the vehicle has not moved
IngestsWithoutMovement ==
    /\ obs'.n = obs.n + 1
    /\ driver.stopped_since # NoneVal
    /\ obs'.latitude = driver.latitude

\* C37: once stopped_since has been set it keeps its value across every
\* later ingest until an ingest detects movement; fetch gaps that leave
\* fewer than two fixes in the 5-minute window or in the trimmed history
\* never reset it to null while the vehicle has not moved.
C37_StoppedSinceKept ==
    [][IngestsWithoutMovement => driver'.stopped_since = driver.stopped_since]_vars

----------------------------------------------------------------------------
(* status_timestamp and stopped_duration_seconds of one snapshot *)

\* C38: in a snapshot whose movement_status is "stopped", status_timestamp
\* and stopped_duration_seconds describe the same instant: now minus
\* status_timestamp equals stopped_duration_seconds, also when no fix of
\* the retained history shows movement.
C38_StoppedInstantAgrees ==
    (probe.op = "classify" /\ probe.status = "stopped") =>
        clock - probe.timestamp = probe.stopped

----------------------------------------------------------------------------
(* The adapter under one key: sets, gets and outages of the cache *)

Unset == [type |-> "unset"]

InitAdapter ==
    /\ redis_client \in BOOLEAN
    /\ clock = StartClock
    /\ redis_up = TRUE
    /\ redis = <<>>
    /\ files = <<>>
    /\ history = <<>>
    /\ driver = InitDriver
    /\ daily_stats = <<>>
    /\ threads = InitThreads
    /\ obs = InitObs
    /\ track = InitTrack
    /\ probe \in {[op |-> "none", key |-> k, last |-> Unset, r |-> JNull] :
                      k \in ProbeKeys}

\* get(key); last is the content of the most recent set
GetKept ==
    /\ Install(AdapterGet(St, probe.key).s)
    /\ probe' = [probe EXCEPT !.op = "get", !.r = AdapterGet(St, probe.key).r]
    /\ UNCHANGED <<clock, redis_client, redis_up, threads, obs, track>>

SetKept(v) ==
    /\ Install(AdapterSet(St, probe.key, v))
    /\ probe' = [probe EXCEPT !.op = "set", !.last = ContentOf(probe.key, v)]
    /\ UNCHANGED <<clock, redis_client, redis_up, threads, obs, track>>

NextAdapter ==
    \/ GetKept
    \/ \E v \in SavedValues(probe.key) : SetKept(v)
    \/ CacheFails
    \/ CacheRecovers

SpecAdapter == InitAdapter /\ [][NextAdapter]_vars

\* C39: for every logical key, get returns the value of the most recent
\* set, across any sequence of sets and gets during which the fast cache
\* becomes unavailable and available again.
C39_GetReturnsLastSet ==
    (probe.op = "get" /\ probe.last # Unset) => probe.r = probe.last

====
